---- MODULE Spec2Model ----
(***************************************************************************)
(* Model of the contract extraction pipeline of LLMExtractor:              *)
(*   - repoSQL.py: ContractParser.parse and ContractRepository             *)
(*     (persist_contract and the lookups/inserts it calls), run on one     *)
(*     psycopg2 connection against the tables of schema precos, and        *)
(*     generate_sql_script;                                                *)
(*   - extrator2.py: the response clean-up, the JSON parse strategies of   *)
(*     analyze_with_gemini, try_repair_truncated_json and the branches of  *)
(*     process_pdf;                                                        *)
(*   - execute_sql_script.py: the execution of a generated script.         *)
(* Spec is the persistence state machine, SpecText the text functions,     *)
(* SpecScript the script route next to persist_contract, and SpecRace two  *)
(* persist_contract calls on separate connections.                         *)
(***************************************************************************)
EXTENDS Integers, Sequences, FiniteSets, TLC

VARIABLES
    db,         \* committed rows of the tables of schema precos
    work,       \* the tables as the connection sees them (db + open transaction)
    conn,       \* the psycopg2 connection: autocommit flag and status
    pc,         \* position inside persist_contract
    contrato,   \* the Contrato object given to persist_contract
    loc,        \* the local variables of persist_contract
    pre,        \* db when the current call started
    filename,   \* source file name of the document of the current call
    ncalls,     \* finished calls
    nfaults,    \* database failures injected so far
    reply,      \* the parts of the model's text: wrapping before, body, wrapping after
    raw_output, \* text returned by the model (sequence of characters)
    pdf_path,   \* path of the PDF being processed (sequence of characters)
    json_result,\* what analyze_with_gemini returned
    repaired,   \* what try_repair_truncated_json returned
    tpc,        \* position of the text pipeline
    current_json_result, \* the result process_pdf keeps for save_json and generate_sql
    handled,    \* locals of process_pdf: the branch taken, what the repair returned
    json_data,  \* the JSON payload generate_and_save_sql gives to ContractParser.parse
    sfile,      \* the file name given to generate_sql_script
    scontrato,  \* the Contrato parsed from json_data
    script,     \* the text generate_sql_script returned, by its parts
    sdb,        \* committed rows of the tables the script route works on
    swork,      \* those tables as the open connection of the script route sees them
    sconn,      \* the connection opened by generate_sql_script or execute_sql_script
    run,        \* local variables of generate_sql_script and execute_sql_script
    spc,        \* position of the script route
    unique,     \* whether the tables have the unique index on cnpj
    rdb,        \* committed rows of the tables two concurrent calls write
    rseq,       \* the id sequences of those tables
    rtx         \* per concurrent call: position, locals, rows of its open transaction

vars == <<db, work, conn, pc, contrato, loc, pre, filename, ncalls, nfaults,
          reply, raw_output, pdf_path, json_result, repaired, tpc,
          current_json_result, handled,
          json_data, sfile, scontrato, script, sdb, swork, sconn, run, spc,
          unique, rdb, rseq, rtx>>

dbvars == <<db, work, conn, pc, contrato, loc, pre, filename, ncalls, nfaults>>
textvars == <<reply, raw_output, pdf_path, json_result, repaired, tpc,
              current_json_result, handled>>
scriptvars == <<json_data, sfile, scontrato, script, sdb, swork, sconn, run, spc>>
racevars == <<unique, rdb, rseq, rtx>>

----------------------------------------------------------------------------
(* Bounds *)
MaxCalls == 2       \* persist_contract calls in one run
MaxItens == 2       \* items in one payload
MaxFaults == 1      \* database operations that fail on their own in one run
MaxCut == 3         \* characters missing at the end of a truncated response
MaxScripts == 1     \* documents taken through the script route in one run
MaxExecutions == 2  \* executions of one generated script
MaxWriters == 2     \* persist_contract calls running at the same time

----------------------------------------------------------------------------
(* Values *)
NULL == "<None>"        \* Python None, SQL NULL
ABSENT == "<absent>"    \* key missing from a JSON object
NoId == 0               \* no row id
E_stmt == "statement failed"
E_conn == "connection lost"
Errors == {E_stmt, E_conn}

S3Prefix == "s3://compras-ia-np/Contratos/"

\* dict.get(key, default): the default only replaces a missing key
Get(v, default) == IF v = ABSENT THEN default ELSE v

\* Python truthiness of an optional string
Truthy(s) == s # NULL /\ s # ""

\* datetime.strptime(s, "%d/%m/%Y").date(), None on ValueError
strptime_date(s) == IF s \in {"15/03/2024"} THEN s ELSE NULL

----------------------------------------------------------------------------
(* ContractParser.parse *)
EmptyObj == [razao_social |-> ABSENT, sigla |-> ABSENT, cnpj |-> ABSENT]

\* a parser that gives an item without tipo no default
ParseItemNoDefault(item_data) ==
    [descricao      |-> Get(item_data.descricao, ""),
     especificacao  |-> Get(item_data.especificacao, NULL),
     unidade_medida |-> Get(item_data.unidade_medida, NULL),
     quantidade     |-> Get(item_data.quantidade, NULL),
     valor_unitario |-> Get(item_data.valor_unitario, NULL),
     valor_total    |-> Get(item_data.valor_total, NULL),
     catmat_catser  |-> Get(item_data.catmat_catser, NULL),
     tipo           |-> Get(item_data.tipo, NULL),
     locais_execucao_entrega |-> Get(item_data.locais_execucao_entrega, NULL)]

ParseItem(item_data) ==
    [descricao      |-> Get(item_data.descricao, ""),
     especificacao  |-> Get(item_data.especificacao, NULL),
     unidade_medida |-> Get(item_data.unidade_medida, NULL),
     quantidade     |-> Get(item_data.quantidade, NULL),
     valor_unitario |-> Get(item_data.valor_unitario, NULL),
     valor_total    |-> Get(item_data.valor_total, NULL),
     catmat_catser  |-> Get(item_data.catmat_catser, NULL),
     tipo           |-> Get(item_data.tipo, "Material"),
     locais_execucao_entrega |-> Get(item_data.locais_execucao_entrega, NULL)]

\* line 104: data.get("itens", []) gives None for "itens": null, and the for
\* statement raises TypeError
ParseRaises(data) == data.itens.present /\ data.itens.null

\* x.get(key) or {}: a missing key and null both give the empty dict
Parse(data) ==
    LET oc_data == IF data.orgao_contratante.present /\ ~data.orgao_contratante.null
                   THEN data.orgao_contratante.obj ELSE EmptyObj
        ec_data == IF data.empresa_contratada.present /\ ~data.empresa_contratada.null
                   THEN data.empresa_contratada.obj ELSE EmptyObj
        itens_in == IF data.itens.present THEN data.itens.list ELSE << >>
    IN  [numero_contrato  |-> Get(data.numero_contrato, ""),
         tipo_instrumento |-> Get(data.tipo_instrumento, "Contrato"),
         processo_administrativo |-> Get(data.processo_administrativo, NULL),
         data_celebracao  |-> Get(data.data_celebracao, NULL),
         fonte_preco      |-> Get(data.fonte_preco, "Contrato"),
         referencia_contrato |-> Get(data.referencia_contrato, NULL),
         url_pdf_s3       |-> Get(data.url_pdf_s3, NULL),
         status_extracao  |-> Get(data.status_extracao, "Sucesso"),
         orgao_contratante |->
            [razao_social |-> Get(oc_data.razao_social, ""),
             sigla        |-> Get(oc_data.sigla, NULL),
             cnpj         |-> Get(oc_data.cnpj, "")],
         empresa_contratada |->
            [razao_social |-> Get(ec_data.razao_social, ""),
             cnpj         |-> Get(ec_data.cnpj, "")],
         itens |-> [i \in 1..Len(itens_in) |-> ParseItem(itens_in[i])]]

----------------------------------------------------------------------------
(* The payloads handed to ContractParser.parse and the source file names *)

UrlOf(f) == S3Prefix \o f

Obj(o) == [present |-> TRUE, null |-> FALSE, obj |-> o]
NoObj == [present |-> FALSE, null |-> FALSE, obj |-> EmptyObj]

\* "itens": a list, the key missing, null
ItemsList(l) == [present |-> TRUE, null |-> FALSE, list |-> l]
NoItems == [present |-> FALSE, null |-> FALSE, list |-> << >>]

\* (numero_contrato, url_pdf_s3) as the model output supplied them

Payload(k, p, l, anexo) ==
    [numero_contrato |-> k[1], tipo_instrumento |-> ABSENT,
     processo_administrativo |-> ABSENT, data_celebracao |-> p.dt,
     fonte_preco |-> ABSENT, referencia_contrato |-> ABSENT,
     url_pdf_s3 |-> k[2], anexo_contrato |-> anexo,
     status_extracao |-> p.st,
     orgao_contratante |-> p.oc, empresa_contratada |-> p.ec,
     itens |-> IF l = << >> /\ p.st # ABSENT THEN NoItems ELSE ItemsList(l)]

Payloads ==
    LET \* item lists are the prefixes of these, up to MaxItens items
        BaseLists ==
            LET ItemData(d, c) ==
                    [descricao |-> d, especificacao |-> ABSENT, unidade_medida |-> "un",
                     quantidade |-> "2", valor_unitario |-> "R$ 1,00", valor_total |-> ABSENT,
                     catmat_catser |-> c, tipo |-> ABSENT, locais_execucao_entrega |-> ABSENT]
            IN  { << ItemData("x", "A1"), ItemData("y", "S1"), ItemData("z", "ZZ") >>,
                  << ItemData("z", "ZZ"), ItemData("x", "A1"), ItemData("x", "A1") >>,
                  << ItemData("w", ABSENT), ItemData("v", ""), ItemData("y", "S1") >> }
        Parties ==
            { [oc |-> Obj([razao_social |-> "Ra", sigla |-> ABSENT, cnpj |-> "1"]),
               ec |-> Obj([razao_social |-> "Ea", sigla |-> ABSENT, cnpj |-> "2"]),
               st |-> ABSENT, dt |-> "15/03/2024"],
              [oc |-> Obj([razao_social |-> "Rb", sigla |-> "SG", cnpj |-> "1"]),
               ec |-> Obj([razao_social |-> "Eb", sigla |-> ABSENT, cnpj |-> "2"]),
               st |-> "Parcial", dt |-> "N/A"],
              [oc |-> NoObj,
               ec |-> Obj([razao_social |-> "Ec", sigla |-> ABSENT, cnpj |-> NULL]),
               st |-> ABSENT, dt |-> ABSENT] }
        \* (numero_contrato, url_pdf_s3) as the model output supplied them
        Keys == { <<"123", ABSENT>>, <<"123", UrlOf("doc.pdf")>>, <<"456", "s3://other/x.pdf">> }
        FirstParty == CHOOSE p \in Parties : p.st = ABSENT /\ p.oc.present
        ItemLists == { SubSeq(l, 1, n) : l \in BaseLists, n \in 0..MaxItens }
    IN  { Payload(k, FirstParty, l, a) : k \in Keys, l \in ItemLists,
                                         a \in {ABSENT, "s3://other/x.pdf"} }
        \cup
        { Payload(k, p, l, ABSENT) : k \in Keys, p \in Parties,
                                     l \in {SubSeq(b, 1, 1) : b \in BaseLists} \cup {<< >>} }

----------------------------------------------------------------------------
(* The tables of schema precos *)
EmptyTables ==
    [orgao_contratante |-> << >>, empresa_contratada |-> << >>,
     contratos |-> << >>, itens |-> << >>, log_extrator |-> << >>,
     catmat |-> {"A1"}, catser |-> {"S1"}]

Rows(t) == { t[i] : i \in 1..Len(t) }

\* the four tables that the main transaction writes
Business(t) == <<t.orgao_contratante, t.empresa_contratada, t.contratos, t.itens>>

\* a lookup that never finds the row
get_orgao_never_finds(t, cnpj) == {}

\* SELECT id ... WHERE cnpj = %s: the ids a LIMIT 1 may return; a NULL
\* parameter compares equal to nothing
get_orgao_contratante_by_cnpj(t, cnpj) ==
    IF cnpj = NULL THEN {}
    ELSE { r.id : r \in { x \in Rows(t.orgao_contratante) : x.cnpj = cnpj } }

\* a company lookup that compares with a column holding no cnpj
get_empresa_by_other_column(t, cnpj) == {}

get_empresa_contratada_by_cnpj(t, cnpj) ==
    IF cnpj = NULL THEN {}
    ELSE { r.id : r \in { x \in Rows(t.empresa_contratada) : x.cnpj = cnpj } }

get_contrato_by_numero_urlpdf(t, numero_contrato, url_pdf_s3) ==
    IF numero_contrato = NULL \/ url_pdf_s3 = NULL THEN {}
    ELSE { r.id : r \in { x \in Rows(t.contratos) :
                            /\ x.numero_contrato = numero_contrato
                            /\ x.url_pdf_s3 = url_pdf_s3 } }

\* INSERT ... RETURNING id of the three insert_* methods
OrgaoRow(t, orgao) ==
    [id |-> Len(t.orgao_contratante) + 1, razao_social |-> orgao.razao_social,
     sigla |-> orgao.sigla, cnpj |-> orgao.cnpj]

EmpresaRow(t, empresa) ==
    [id |-> Len(t.empresa_contratada) + 1, razao_social |-> empresa.razao_social,
     cnpj |-> empresa.cnpj]

\* a contract row that ignores the ids resolved before it
ContratoRowUnresolved(t, c, orgao_id, empresa_id) ==
    [id |-> Len(t.contratos) + 1,
     numero_contrato |-> c.numero_contrato,
     tipo_instrumento |-> c.tipo_instrumento,
     processo_administrativo |-> c.processo_administrativo,
     data_celebracao |-> IF Truthy(c.data_celebracao)
                         THEN strptime_date(c.data_celebracao) ELSE NULL,
     fonte_preco |-> c.fonte_preco,
     referencia_contrato |-> c.referencia_contrato,
     url_pdf_s3 |-> c.url_pdf_s3,
     status_extracao |-> c.status_extracao,
     orgao_contratante_id |-> NoId,
     empresa_contratada_id |-> NoId]

ContratoRow(t, c, orgao_id, empresa_id) ==
    [id |-> Len(t.contratos) + 1,
     numero_contrato |-> c.numero_contrato,
     tipo_instrumento |-> c.tipo_instrumento,
     processo_administrativo |-> c.processo_administrativo,
     data_celebracao |-> IF Truthy(c.data_celebracao)
                         THEN strptime_date(c.data_celebracao) ELSE NULL,
     fonte_preco |-> c.fonte_preco,
     referencia_contrato |-> c.referencia_contrato,
     url_pdf_s3 |-> c.url_pdf_s3,
     status_extracao |-> c.status_extracao,
     orgao_contratante_id |-> orgao_id,
     empresa_contratada_id |-> empresa_id]

\* a check that accepts every non-empty code
is_valid_any_code(t, code) == Truthy(code)

is_valid_catmat_catser(t, code) ==
    IF ~Truthy(code) THEN FALSE
    ELSE IF code \in t.catmat THEN TRUE
    ELSE IF code \in t.catser THEN TRUE
    ELSE FALSE

\* the loop of persist_contract that keeps the items passing the check
ValidItems(t, itens) == SelectSeq(itens, LAMBDA it : is_valid_catmat_catser(t, it.catmat_catser))

\* the items whose check runs a query (the others return before any query)
Queried(itens) == { i \in 1..Len(itens) : Truthy(itens[i].catmat_catser) }

----------------------------------------------------------------------------
(* The psycopg2 connection *)
Usable(c) == c.status \in {"ready", "intrans"}

\* the exceptions an operation on connection c can raise now: a closed
\* connection and an aborted transaction refuse every statement
Raisable(c) ==
    IF c.status = "closed" THEN {E_conn}
    ELSE IF c.status = "aborted" THEN {E_stmt}
    ELSE IF nfaults < MaxFaults THEN Errors ELSE {}

Counted(c) == IF Usable(c) THEN nfaults + 1 ELSE nfaults

AfterStmtErr(c, e) ==
    IF e = E_conn THEN [c EXCEPT !.status = "closed"]
    ELSE IF c.autocommit THEN c
    ELSE [c EXCEPT !.status = "aborted"]

----------------------------------------------------------------------------
(* ContractRepository.persist_contract *)
IdleLoc ==
    [itens_in |-> << >>, data_contrato_sql |-> NULL, qtd_itens |-> 0,
     orgao_id |-> NoId, empresa_id |-> NoId, contrato_id |-> NoId, i |-> 1,
     log_status |-> "", log_msg |-> "", exc |-> NULL, at |-> "",
     existing |-> FALSE, logged |-> FALSE, escaped |-> NULL, returned |-> ABSENT]

\* persist_contract has no return statement: a call that ends without an
\* exception evaluates to None, whatever log_status is
persist_contract_result(log_status) == NULL

IdleContrato == Parse(Payload(<<ABSENT, ABSENT>>, [oc |-> NoObj, ec |-> NoObj,
                              st |-> ABSENT, dt |-> ABSENT], << >>, ABSENT))

\* the caller parses the payload and calls persist_contract, which sets its
\* log variables and converts the date (lines 372-383)
Call(p, f) ==
    /\ pc = "idle"
    /\ ncalls < MaxCalls
    /\ contrato' = Parse(p)
    /\ filename' = f
    /\ pre' = db
    /\ loc' = [IdleLoc EXCEPT
                 !.itens_in = contrato'.itens,
                 !.log_status = "Sucesso",
                 !.log_msg = "Contrato processado com sucesso.",
                 !.data_contrato_sql =
                     IF Truthy(contrato'.data_celebracao)
                     THEN strptime_date(contrato'.data_celebracao) ELSE NULL]
    /\ pc' = "filter"
    /\ UNCHANGED <<db, work, conn, ncalls, nfaults>>

\* lines 385-394: keep the items whose code passes is_valid_catmat_catser
FilterItems ==
    /\ pc = "filter"
    /\ Queried(contrato.itens) # {} => Usable(conn)
    /\ contrato' = [contrato EXCEPT !.itens = ValidItems(work, contrato.itens)]
    /\ loc' = [loc EXCEPT !.qtd_itens = Len(contrato'.itens)]
    /\ conn' = IF Queried(contrato.itens) # {} THEN (IF conn.autocommit THEN conn ELSE [conn EXCEPT !.status = "intrans"]) ELSE conn
    /\ pc' = "orgao"
    /\ UNCHANGED <<db, work, pre, filename, ncalls, nfaults>>

\* a lookup of the loop raises: the loop is outside the try, the exception
\* leaves persist_contract
FilterRaises(e) ==
    /\ pc = "filter"
    /\ Queried(contrato.itens) # {}
    /\ e \in Raisable(conn)
    /\ nfaults' = Counted(conn)
    /\ conn' = AfterStmtErr(conn, e)
    /\ work' = IF e = E_conn THEN db ELSE work
    /\ loc' = [loc EXCEPT !.escaped = e, !.at = "filter"]
    /\ pc' = "done"
    /\ UNCHANGED <<db, contrato, pre, filename, ncalls>>

\* line 397 on a connection with a transaction open (the lookups of the
\* filter loop opened it): psycopg2 refuses to change autocommit inside a
\* transaction and raises ProgrammingError, inside the try
AutocommitRaises ==
    /\ pc = "orgao"
    /\ conn.status = "intrans"
    /\ loc' = [loc EXCEPT !.exc = "set_session cannot be used inside a transaction",
                          !.at = "begin"]
    /\ pc' = "except"
    /\ UNCHANGED <<db, work, conn, contrato, pre, filename, ncalls, nfaults>>

\* line 397 and insert_orgao_contratante (line 399)
ResolveOrgao ==
    /\ pc = "orgao"
    /\ conn.status = "ready"
    /\ LET ids == get_orgao_contratante_by_cnpj(work, contrato.orgao_contratante.cnpj)
           row == OrgaoRow(work, contrato.orgao_contratante)
       IN  \/ /\ ids # {}
              /\ \E id \in ids : loc' = [loc EXCEPT !.orgao_id = id]
              /\ work' = work
           \/ /\ ids = {}
              /\ work' = [work EXCEPT !.orgao_contratante = Append(@, row)]
              /\ loc' = [loc EXCEPT !.orgao_id = row.id]
    /\ conn' = [autocommit |-> FALSE, status |-> "intrans"]
    /\ pc' = "empresa"
    /\ UNCHANGED <<db, contrato, pre, filename, ncalls, nfaults>>

\* insert_empresa_contratada (line 400)
ResolveEmpresa ==
    /\ pc = "empresa"
    /\ LET ids == get_empresa_contratada_by_cnpj(work, contrato.empresa_contratada.cnpj)
           row == EmpresaRow(work, contrato.empresa_contratada)
       IN  \/ /\ ids # {}
              /\ \E id \in ids : loc' = [loc EXCEPT !.empresa_id = id]
              /\ work' = work
           \/ /\ ids = {}
              /\ work' = [work EXCEPT !.empresa_contratada = Append(@, row)]
              /\ loc' = [loc EXCEPT !.empresa_id = row.id]
    /\ pc' = "contrato"
    /\ UNCHANGED <<db, conn, contrato, pre, filename, ncalls, nfaults>>

\* insert_contrato (line 401)
ResolveContrato ==
    /\ pc = "contrato"
    /\ LET ids == get_contrato_by_numero_urlpdf(work, contrato.numero_contrato,
                                                contrato.url_pdf_s3)
           row == ContratoRow(work, contrato, loc.orgao_id, loc.empresa_id)
       IN  \/ /\ ids # {}
              /\ \E id \in ids : loc' = [loc EXCEPT !.contrato_id = id, !.existing = TRUE]
              /\ work' = work
           \/ /\ ids = {}
              /\ work' = [work EXCEPT !.contratos = Append(@, row)]
              /\ loc' = [loc EXCEPT !.contrato_id = row.id]
    /\ pc' = IF Len(contrato.itens) > 0 THEN "itens" ELSE "commit"
    /\ UNCHANGED <<db, conn, contrato, pre, filename, ncalls, nfaults>>

\* one turn of the loop of lines 403-404
\* the row insert_item writes (lines 302-330)
ItemRow(item, contrato_id) ==
    [contrato_id |-> contrato_id, descricao |-> item.descricao,
     especificacao |-> item.especificacao, unidade_medida |-> item.unidade_medida,
     quantidade |-> item.quantidade, valor_unitario |-> item.valor_unitario,
     valor_total |-> item.valor_total, catmat_catser |-> item.catmat_catser,
     tipo |-> item.tipo, locais_execucao_entrega |-> item.locais_execucao_entrega]

InsertItem ==
    /\ pc = "itens"
    /\ work' = [work EXCEPT !.itens = Append(@, ItemRow(contrato.itens[loc.i], loc.contrato_id))]
    /\ loc' = [loc EXCEPT !.i = @ + 1]
    /\ pc' = IF loc.i < Len(contrato.itens) THEN "itens" ELSE "commit"
    /\ UNCHANGED <<db, conn, contrato, pre, filename, ncalls, nfaults>>

\* a statement of lines 397-404 raises: control goes to the except clause
InsertRaises(e) ==
    /\ pc \in {"orgao", "empresa", "contrato", "itens"}
    /\ ~(pc = "orgao" /\ conn.status = "intrans")
    /\ e \in Raisable(conn)
    /\ nfaults' = Counted(conn)
    /\ conn' = AfterStmtErr([conn EXCEPT !.autocommit = (conn.status = "closed" /\ @)], e)
    /\ work' = IF e = E_conn THEN db ELSE work
    /\ loc' = [loc EXCEPT !.exc = e, !.at = pc]
    /\ pc' = "except"
    /\ UNCHANGED <<db, contrato, pre, filename, ncalls>>

\* line 406
Commit ==
    /\ pc = "commit"
    /\ db' = work
    /\ conn' = [conn EXCEPT !.status = "ready"]
    /\ pc' = "finally"
    /\ UNCHANGED <<work, contrato, loc, pre, filename, ncalls, nfaults>>

\* commit raises: the server has rolled the transaction back, or the
\* connection was lost with the commit applied or not
CommitRaises(e) ==
    /\ pc = "commit"
    /\ e \in Raisable(conn)
    /\ nfaults' = Counted(conn)
    /\ \/ e = E_stmt /\ db' = db /\ conn' = [conn EXCEPT !.status = "ready"]
       \/ e = E_conn /\ db' \in {db, work} /\ conn' = [conn EXCEPT !.status = "closed"]
    /\ work' = db'
    /\ loc' = [loc EXCEPT !.exc = e, !.at = "commit"]
    /\ pc' = "except"
    /\ UNCHANGED <<contrato, pre, filename, ncalls>>

\* a rollback that keeps the rows of the transaction
rollback_keeps(t, w) == w

\* conn.rollback(): the connection sees the committed rows again
rollback(t, w) == t

\* lines 408-412: rollback, then the log variables are set; rollback on a
\* closed connection raises and the assignments are skipped
Except ==
    /\ pc = "except"
    /\ \/ /\ conn.status = "closed"
          /\ loc' = [loc EXCEPT !.escaped = E_conn]
          /\ UNCHANGED <<work, conn>>
       \/ /\ conn.status # "closed"
          /\ work' = rollback(db, work)
          /\ conn' = [conn EXCEPT !.status = "ready"]
          /\ loc' = [loc EXCEPT !.log_status = "Falha",
                                !.log_msg = "Erro ao processar contrato: " \o loc.exc]
    /\ pc' = "finally"
    /\ UNCHANGED <<db, contrato, pre, filename, ncalls, nfaults>>

\* lines 413-424: autocommit is switched on and the log row is inserted
Finally ==
    LET LogRow(c, data_contrato, quantidade_itens, status_execucao, mensagem_log) ==
            [cnpj_orgao |-> c.orgao_contratante.cnpj,
             cnpj_empresa |-> c.empresa_contratada.cnpj,
             numero_contrato |-> c.numero_contrato,
             data_contrato |-> data_contrato,
             quantidade_itens |-> quantidade_itens,
             status_execucao |-> status_execucao,
             mensagem_log |-> mensagem_log]
    IN  /\ pc = "finally"
        /\ Usable(conn)
        /\ LET row == LogRow(contrato, loc.data_contrato_sql, loc.qtd_itens,
                             loc.log_status, loc.log_msg)
           IN  /\ db' = [db EXCEPT !.log_extrator = Append(@, row)]
               /\ work' = [work EXCEPT !.log_extrator = Append(@, row)]
        /\ conn' = [conn EXCEPT !.autocommit = TRUE]
        /\ loc' = [loc EXCEPT !.logged = TRUE,
                              !.returned = persist_contract_result(loc.log_status)]
        /\ pc' = "done"
        /\ UNCHANGED <<contrato, pre, filename, ncalls, nfaults>>

\* line 414 raises on a closed connection (the exception leaves the call), or
\* the log insert raises and lines 425-426 swallow the exception
FinallyRaises(e) ==
    /\ pc = "finally"
    /\ e \in Raisable(conn)
    /\ nfaults' = Counted(conn)
    /\ IF conn.status = "closed"
       THEN /\ loc' = [loc EXCEPT !.escaped = E_conn]
            /\ conn' = conn
       ELSE /\ loc' = [loc EXCEPT !.returned = persist_contract_result(loc.log_status)]
            /\ conn' = AfterStmtErr([conn EXCEPT !.autocommit = TRUE], e)
    /\ pc' = "done"
    /\ UNCHANGED <<db, work, contrato, pre, filename, ncalls>>

\* persist_contract returns (or its exception reaches the caller)
Return ==
    /\ pc = "done"
    /\ pc' = "idle"
    /\ ncalls' = ncalls + 1
    /\ contrato' = IdleContrato
    /\ loc' = IdleLoc
    /\ pre' = db
    /\ filename' = ""
    /\ UNCHANGED <<db, work, conn, nfaults>>

(* The script route before its first document *)
NoScript ==
    LET BlankOrgao == [razao_social |-> "", sigla |-> "", cnpj |-> ""]
        BlankEmpresa == [razao_social |-> "", cnpj |-> ""]
        BlankContrato ==
            [numero_contrato |-> "", tipo_instrumento |-> "", processo_administrativo |-> "",
             data_sql |-> "", fonte_preco |-> "", referencia_contrato |-> "",
             url_pdf_s3 |-> "", status_extracao |-> ""]
    IN  [kind |-> "none", comment |-> "", orgao |-> BlankOrgao,
                 empresa |-> BlankEmpresa, contrato |-> BlankContrato, itens |-> << >>]

IdleData == Payload(<<ABSENT, ABSENT>>, [oc |-> NoObj, ec |-> NoObj,
                    st |-> ABSENT, dt |-> ABSENT], << >>, ABSENT)

NoConn == [status |-> "none"]

IdleRun(n) ==
    [valid_items |-> << >>, raised |-> NULL, same |-> FALSE, other |-> FALSE,
     executions |-> 0, success |-> FALSE, path |-> "",
     after_first |-> Business(EmptyTables), i |-> 0,
     success_count |-> 0, error_count |-> 0, n |-> n,
     before |-> Business(EmptyTables), applied |-> Business(EmptyTables)]

Init ==
    LET DbInit ==
            /\ db = EmptyTables
            /\ work = EmptyTables
            /\ conn \in [autocommit : BOOLEAN, status : {"ready"}]
            /\ pc = "idle"
            /\ contrato = IdleContrato
            /\ loc = IdleLoc
            /\ pre = EmptyTables
            /\ filename = ""
            /\ ncalls = 0
            /\ nfaults = 0
        TextIdle ==
            /\ reply = [pre |-> << >>, body |-> << >>, post |-> << >>]
            /\ raw_output = << >>
            /\ pdf_path = << >>
            /\ json_result = [kind |-> "None", val |-> {}, via |-> "", cleaned |-> << >>]
            /\ repaired = [kind |-> "None", val |-> {}]
            /\ tpc = "idle"
            /\ current_json_result = [kind |-> "None", val |-> {}]
            /\ handled = [branch |-> "", repaired_json |-> [kind |-> "None", val |-> {}]]
        \* the script route has not started
        ScriptIdle ==
            /\ json_data = IdleData
            /\ sfile = ""
            /\ scontrato = IdleContrato
            /\ script = NoScript
            /\ sdb = EmptyTables
            /\ swork = EmptyTables
            /\ sconn = NoConn
            /\ run = IdleRun(0)
            /\ spc = "idle"
        \* no concurrent call has started and the tables have no unique index
        RaceIdle ==
            /\ unique = FALSE
            /\ rdb = EmptyTables
            /\ rseq = [orgao_contratante |-> 0, empresa_contratada |-> 0, contratos |-> 0]
            /\ rtx = [i \in 1..MaxWriters |->
                        [pc |-> "idle", contrato |-> IdleContrato, own |-> EmptyTables,
                         orgao_id |-> NoId, empresa_id |-> NoId, contrato_id |-> NoId,
                         log_status |-> "", violated |-> FALSE]]
    IN  DbInit /\ TextIdle /\ ScriptIdle /\ RaceIdle

Next ==
    \/ \E p \in Payloads, f \in {"doc.pdf", "edital 2-A.pdf"} : Call(p, f) /\ UNCHANGED <<textvars, scriptvars, racevars>>
    \/ FilterItems /\ UNCHANGED <<textvars, scriptvars, racevars>>
    \/ \E e \in Errors : FilterRaises(e) /\ UNCHANGED <<textvars, scriptvars, racevars>>
    \/ AutocommitRaises /\ UNCHANGED <<textvars, scriptvars, racevars>>
    \/ ResolveOrgao /\ UNCHANGED <<textvars, scriptvars, racevars>>
    \/ ResolveEmpresa /\ UNCHANGED <<textvars, scriptvars, racevars>>
    \/ ResolveContrato /\ UNCHANGED <<textvars, scriptvars, racevars>>
    \/ InsertItem /\ UNCHANGED <<textvars, scriptvars, racevars>>
    \/ \E e \in Errors : InsertRaises(e) /\ UNCHANGED <<textvars, scriptvars, racevars>>
    \/ Commit /\ UNCHANGED <<textvars, scriptvars, racevars>>
    \/ \E e \in Errors : CommitRaises(e) /\ UNCHANGED <<textvars, scriptvars, racevars>>
    \/ Except /\ UNCHANGED <<textvars, scriptvars, racevars>>
    \/ Finally /\ UNCHANGED <<textvars, scriptvars, racevars>>
    \/ \E e \in Errors : FinallyRaises(e) /\ UNCHANGED <<textvars, scriptvars, racevars>>
    \/ Return /\ UNCHANGED <<textvars, scriptvars, racevars>>

Spec == Init /\ [][Next]_vars

----------------------------------------------------------------------------
(* Properties of persist_contract *)
InsertSteps == {"orgao", "empresa", "contrato", "itens"}

LastLog == db.log_extrator[Len(db.log_extrator)]

NewContratos == { db.contratos[i] : i \in (Len(pre.contratos) + 1)..Len(db.contratos) }

IsPrefix(a, b) == Len(a) <= Len(b) /\ SubSeq(b, 1, Len(a)) = a

\* C1: every call to persist_contract leaves exactly one new log_extrator
\* row, whichever database operation of the call fails or succeeds.
C1_OneLogRowPerCall ==
    pc = "done" => Len(db.log_extrator) = Len(pre.log_extrator) + 1

\* C2: when an insert of the sequence organization, company, contract, items
\* raises, the transaction is rolled back: the four tables hold exactly the
\* rows committed before the call, the connection keeps no pending row, and
\* the log row the call writes has status 'Falha' and carries the exception
\* text.
C2_InsertFailureRollsBack ==
    (pc = "done" /\ loc.at \in InsertSteps) =>
        /\ Business(db) = Business(pre)
        /\ Business(work) = Business(db)
        /\ IsPrefix(pre.log_extrator, db.log_extrator)
        /\ loc.logged =>
              /\ Len(db.log_extrator) = Len(pre.log_extrator) + 1
              /\ LastLog.status_execucao = "Falha"
              /\ LastLog.mensagem_log = "Erro ao processar contrato: " \o loc.exc

C2_Witness ==
    /\ pc = "done"
    /\ loc.at = "itens"
    /\ loc.i = 2
    /\ loc.logged
    /\ Len(pre.contratos) > 0
    /\ LastLog.status_execucao = "Falha"

\* C3: precos.contratos holds at most one row per (numero_contrato,
\* url_pdf_s3) pair, a missing (null) url_pdf_s3 included.
C3_OneContractPerKey ==
    \A i, j \in 1..Len(db.contratos) :
        ( /\ db.contratos[i].numero_contrato = db.contratos[j].numero_contrato
          /\ db.contratos[i].url_pdf_s3 = db.contratos[j].url_pdf_s3 ) => i = j

\* C4: a call that finds the contract row already stored adds no item row
\* and changes no contract row.
C4_ExistingContractUntouched ==
    (pc = "done" /\ loc.existing) =>
        /\ db.itens = pre.itens
        /\ db.contratos = pre.contratos

\* C5: orgao_contratante and empresa_contratada hold at most one row per
\* cnpj value, and a stored row is never changed by a later call (the rows
\* present when a call starts are still there, unchanged, in the same place).
C5_OneRowPerCnpj ==
    /\ \A i, j \in 1..Len(db.orgao_contratante) :
          ( /\ db.orgao_contratante[i].cnpj # NULL
            /\ db.orgao_contratante[i].cnpj = db.orgao_contratante[j].cnpj ) => i = j
    /\ \A i, j \in 1..Len(db.empresa_contratada) :
          ( /\ db.empresa_contratada[i].cnpj # NULL
            /\ db.empresa_contratada[i].cnpj = db.empresa_contratada[j].cnpj ) => i = j
    /\ IsPrefix(pre.orgao_contratante, db.orgao_contratante)
    /\ IsPrefix(pre.empresa_contratada, db.empresa_contratada)

C5_Witness ==
    /\ pc = "done"
    /\ loc.logged
    /\ loc.log_status = "Sucesso"
    /\ contrato.orgao_contratante.razao_social = "Rb"
    /\ contrato.empresa_contratada.razao_social = "Eb"
    /\ Len(db.orgao_contratante) = 1
    /\ db.orgao_contratante[1].razao_social = "Ra"
    /\ db.orgao_contratante[1].sigla = NULL
    /\ Len(db.empresa_contratada) = 1
    /\ db.empresa_contratada[1].razao_social = "Ea"
    /\ Len(db.contratos) = 2

\* the items of the payload whose code is in one of the reference tables
Passing(itens) ==
    { i \in 1..Len(itens) : itens[i].catmat_catser \in db.catmat \cup db.catser }

\* C6: no itens row is created for an item whose catmat_catser is in neither
\* catmat nor catser, and the quantidade_itens of the call, fixed before the
\* transaction starts and written to the log row on the success path and on
\* the 'Falha' path, is the number of items of the payload that pass.
C6_OnlyValidItems ==
    /\ \A r \in Rows(db.itens) \cup Rows(work.itens) :
          r.catmat_catser \in db.catmat \cup db.catser
    /\ pc \in InsertSteps \cup {"commit", "except", "finally", "done"} /\ loc.at # "filter"
          => loc.qtd_itens = Cardinality(Passing(loc.itens_in))
    /\ (pc = "done" /\ loc.logged)
          => LastLog.quantidade_itens = Cardinality(Passing(loc.itens_in))

C6_Witness ==
    /\ pc = "done"
    /\ loc.logged
    /\ LastLog.status_execucao = "Falha"
    /\ Len(loc.itens_in) = 2
    /\ LastLog.quantidade_itens = 1
    /\ \E c \in 1..Len(db.log_extrator) - 1 :
          /\ db.log_extrator[c].status_execucao = "Sucesso"
          /\ db.log_extrator[c].quantidade_itens = 1
    /\ Len(db.itens) = 1

\* C7: the url_pdf_s3 of every contract row a call stores is
\* s3://compras-ia-np/Contratos/<source filename>, whatever URL the model
\* output carried.
C7_StoredUrlFromFilename ==
    pc = "done" => \A r \in NewContratos : r.url_pdf_s3 = UrlOf(filename)

----------------------------------------------------------------------------
(* Text: a Python str is the sequence of its characters *)
Min(S) == CHOOSE x \in S : \A y \in S : x <= y
Max(S) == CHOOSE x \in S : \A y \in S : x >= y

Whitespace == {" ", "\n", "\t", "\r"}
Digits == {"0", "1", "2", "3", "4", "5", "6", "7", "8", "9"}
QUOTE == "\""

At(s, i) == IF i \in 1..Len(s) THEN s[i] ELSE ""

From(s, i) == SubSeq(s, i, Len(s))

\* s[i:i+len(p)] == p
Occurs(s, p, i) == i >= 1 /\ i + Len(p) - 1 <= Len(s) /\ SubSeq(s, i, i + Len(p) - 1) = p

Occurrences(s, p) == { i \in 1..Len(s) : Occurs(s, p, i) }

startswith(s, p) == Occurs(s, p, 1)
endswith(s, p) == Occurs(s, p, Len(s) - Len(p) + 1)

\* str.strip(), str.rstrip()
strip(s) ==
    LET keep == { i \in 1..Len(s) : s[i] \notin Whitespace }
    IN  IF keep = {} THEN << >> ELSE SubSeq(s, Min(keep), Max(keep))

\* str.replace(old, ""): the occurrences are taken from the left, without overlap
RECURSIVE remove_all(_, _)
remove_all(s, old) ==
    IF Occurrences(s, old) = {} THEN s
    ELSE LET i == Min(Occurrences(s, old))
         IN  SubSeq(s, 1, i - 1) \o remove_all(From(s, i + Len(old)), old)

count(s, c) == Cardinality({ i \in 1..Len(s) : s[i] = c })

\* c repeated n times
Repeat(c, n) == [i \in 1..n |-> c]

\* os.path.basename
basename(path) ==
    LET seps == { i \in 1..Len(path) : path[i] = "/" }
    IN  IF seps = {} THEN path ELSE From(path, Max(seps) + 1)

\* the backquote character
BT == "BACKQUOTE"

FENCE == <<BT, BT, BT>>
FENCE_JSON == <<BT, BT, BT, "j", "s", "o", "n">>
K_anexo_contrato == <<"a", "n", "e", "x", "o", "_", "c", "o", "n", "t", "r", "a", "t", "o">>
K_status_extracao == <<"s", "t", "a", "t", "u", "s", "_", "e", "x", "t", "r", "a", "c", "a", "o">>
V_Falha == <<"F", "a", "l", "h", "a">>
V_Parcial == <<"P", "a", "r", "c", "i", "a", "l">>
FallbackLimit == 1000

----------------------------------------------------------------------------
(* json.loads.  A value is the set of its nodes <<path, kind, text>>: path  *)
(* is the sequence of keys (an array index n is n+1 times "#") leading to   *)
(* the node, kind is obj, arr, str, num or lit, text the characters of a    *)
(* string, number or literal.  A later duplicate of a key replaces the      *)
(* earlier one, as in a Python dict.  Numbers are integers; the texts have  *)
(* no backslash escapes.                                                    *)
Failed == [ok |-> FALSE, pos |-> 0, val |-> {}]
Parsed(p, v) == [ok |-> TRUE, pos |-> p, val |-> v]

Leaf(kind, text) == { << << >>, kind, text >> }
Under(key, v) == { << <<key>> \o n[1], n[2], n[3] >> : n \in v }
Without(v, key) == { n \in v : ~(Len(n[1]) >= 1 /\ n[1][1] = key) }

IsObject(v) == << << >>, "obj", << >> >> \in v

\* index of the first character at or after i that is not whitespace
SkipWs(s, i) == Min({ j \in i..(Len(s) + 1) : At(s, j) \notin Whitespace })

ParseString(s, i) ==
    LET close == { j \in (i + 1)..Len(s) : s[j] = QUOTE }
    IN  IF At(s, i) # QUOTE \/ close = {} THEN Failed
        ELSE LET j == Min(close)
                 text == SubSeq(s, i + 1, j - 1)
             IN  IF \E k \in 1..Len(text) : text[k] \in {"\n", "\t", "\r", "\\"}
                 THEN Failed
                 ELSE Parsed(j + 1, Leaf("str", text))

RECURSIVE ParseValue(_, _), ParseMembers(_, _, _), ParseElements(_, _, _, _)

\* the value starting at s[i]
ParseValue(s, i) ==
    LET ParseNumber ==
            LET d == IF At(s, i) = "-" THEN i + 1 ELSE i
                stop == Min({ j \in d..(Len(s) + 1) : At(s, j) \notin Digits })
            IN  IF At(s, d) \notin Digits THEN Failed
                ELSE IF At(s, d) = "0" THEN Parsed(d + 1, Leaf("num", SubSeq(s, i, d)))
                ELSE Parsed(stop, Leaf("num", SubSeq(s, i, stop - 1)))
        ParseLiteral ==
            LET lits == { l \in {<<"t", "r", "u", "e">>, <<"f", "a", "l", "s", "e">>, <<"n", "u", "l", "l">>} : Occurs(s, l, i) }
            IN  IF lits = {} THEN Failed
                ELSE LET l == CHOOSE x \in lits : TRUE
                     IN  Parsed(i + Len(l), Leaf("lit", l))
        c == At(s, i)
    IN  IF c = QUOTE THEN ParseString(s, i)
        ELSE IF c = "{" THEN
            IF At(s, SkipWs(s, i + 1)) = "}"
            THEN Parsed(SkipWs(s, i + 1) + 1, Leaf("obj", << >>))
            ELSE ParseMembers(s, SkipWs(s, i + 1), Leaf("obj", << >>))
        ELSE IF c = "[" THEN
            IF At(s, SkipWs(s, i + 1)) = "]"
            THEN Parsed(SkipWs(s, i + 1) + 1, Leaf("arr", << >>))
            ELSE ParseElements(s, SkipWs(s, i + 1), 0, Leaf("arr", << >>))
        ELSE IF c = "-" \/ c \in Digits THEN ParseNumber
        ELSE ParseLiteral

\* "key": value pairs from s[i] to the closing brace
ParseMembers(s, i, acc) ==
    LET k == ParseString(s, i)
    IN  IF ~k.ok THEN Failed
        ELSE IF At(s, SkipWs(s, k.pos)) # ":" THEN Failed
        ELSE LET key == (CHOOSE n \in k.val : TRUE)[3]
                 v == ParseValue(s, SkipWs(s, SkipWs(s, k.pos) + 1))
             IN  IF ~v.ok THEN Failed
                 ELSE LET acc2 == Without(acc, key) \cup Under(key, v.val)
                          j == SkipWs(s, v.pos)
                      IN  IF At(s, j) = "}" THEN Parsed(j + 1, acc2)
                          ELSE IF At(s, j) = "," THEN ParseMembers(s, SkipWs(s, j + 1), acc2)
                          ELSE Failed

\* the elements of an array from s[i] to the closing bracket
ParseElements(s, i, n, acc) ==
    LET v == ParseValue(s, i)
    IN  IF ~v.ok THEN Failed
        ELSE LET acc2 == acc \cup Under((Repeat("#", n + 1)), v.val)
                 j == SkipWs(s, v.pos)
             IN  IF At(s, j) = "]" THEN Parsed(j + 1, acc2)
                 ELSE IF At(s, j) = "," THEN ParseElements(s, SkipWs(s, j + 1), n + 1, acc2)
                 ELSE Failed

\* json.loads(s): ok is FALSE where json.JSONDecodeError is raised
json_loads(s) ==
    LET v == ParseValue(s, SkipWs(s, 1))
    IN  IF v.ok /\ SkipWs(s, v.pos) = Len(s) + 1 THEN v ELSE Failed

\* d[key] = text, for a dict d
SetItem(d, key, text) == Without(d, key) \cup Under(key, Leaf("str", text))

\* d.get(key) == text
HasStr(d, key, text) == << <<key>>, "str", text >> \in d

----------------------------------------------------------------------------
(* The response clean-up and the parse strategies (extrator2.py) *)
NoneResult == [kind |-> "None", val |-> {}]

\* lines 207-218 of analyze_with_gemini, lines 1411-1416 of
\* try_repair_truncated_json
Clean(raw) ==
    LET \* str.replace(old, "", 1)
        remove_first(s, old) ==
            IF Occurrences(s, old) = {} THEN s
            ELSE LET i == Min(Occurrences(s, old))
                 IN  SubSeq(s, 1, i - 1) \o From(s, i + Len(old))
        \* s[:s.rindex(p)]
        before_last(s, p) == SubSeq(s, 1, Max(Occurrences(s, p)) - 1)
    IN  LET a == strip(raw)
            b == IF startswith(a, FENCE_JSON) THEN remove_first(a, FENCE_JSON) ELSE a
            c == IF endswith(b, FENCE) THEN before_last(b, FENCE) ELSE b
        IN  strip(remove_all(c, FENCE))

\* f"s3://compras-ia-np/Contratos/{pdf_filename}"
expected_anexo(pdf_filename) ==
    <<"s", "3", ":", "/", "/", "c", "o", "m", "p", "r", "a", "s", "-", "i", "a", "-", "n", "p", "/", "C", "o", "n", "t", "r", "a", "t", "o", "s", "/">> \o pdf_filename

\* an analysis that leaves the field as the model wrote it
keep_anexo(parsed_json, pdf_filename) == parsed_json

\* lines 247-250: the field is corrected when it differs
fix_anexo(parsed_json, pdf_filename) ==
    IF HasStr(parsed_json, K_anexo_contrato, expected_anexo(pdf_filename))
    THEN parsed_json
    ELSE SetItem(parsed_json, K_anexo_contrato, expected_anexo(pdf_filename))

\* a non-greedy pattern: from the first { to the first } after it
LazySpan(text) ==
    LET opens == { i \in 1..Len(text) : text[i] = "{" }
        closes == { i \in 1..Len(text) : text[i] = "}" /\ \E k \in 1..(i - 1) : text[k] = "{" }
    IN  IF opens # {} /\ closes # {}
        THEN SubSeq(text, Min(opens), Min(closes)) ELSE << >>

\* re.search(r'(\{.*\})', text, re.DOTALL): from the first { to the last }
GreedySpan(text) ==
    LET opens == { i \in 1..Len(text) : text[i] = "{" }
        closes == { i \in 1..Len(text) : text[i] = "}" }
    IN  IF opens # {} /\ closes # {} /\ Min(opens) < Max(closes)
        THEN SubSeq(text, Min(opens), Max(closes)) ELSE << >>

\* analyze_with_gemini from the text of the response on (lines 199-303):
\* via names the strategy that produced the result
analyze_with_gemini(raw, path) ==
    LET \* lines 292-297
        Fallback(cleaned_output, pdf_filename) ==
            Leaf("obj", << >>)
            \cup Under(K_status_extracao, Leaf("str", V_Falha))
            \cup Under(<<"m", "e", "n", "s", "a", "g", "e", "m">>, Leaf("str", <<"N", "ã", "o", " ", "f", "o", "i", " ", "p", "o", "s", "s", "í", "v", "e", "l", " ", "e", "x", "t", "r", "a", "i", "r", " ", "d", "a", "d", "o", "s", " ", "e", "s", "t", "r", "u", "t", "u", "r", "a", "d", "o", "s">>))
            \cup Under(<<"r", "e", "s", "p", "o", "s", "t", "a", "_", "m", "o", "d", "e", "l", "o">>, Leaf("str",
                    SubSeq(cleaned_output, 1,
                           IF Len(cleaned_output) > FallbackLimit
                           THEN FallbackLimit ELSE Len(cleaned_output))
                    \o (IF Len(cleaned_output) > FallbackLimit THEN <<".", ".", ".">> ELSE << >>)))
            \cup Under(K_anexo_contrato, Leaf("str", expected_anexo(pdf_filename)))
    IN  LET pdf_filename == basename(path)
            cleaned == Clean(raw)
            span == GreedySpan(cleaned)
            starts == { i \in 1..Len(cleaned) :
                          cleaned[i] = "{" /\ json_loads(From(cleaned, i)).ok }
            full == json_loads(cleaned)
            Result(k, v, how) == [kind |-> k, val |-> v, via |-> how, cleaned |-> cleaned]
        IN  IF strip(raw) = << >> THEN Result("None", {}, "empty")
            ELSE IF cleaned = << >> THEN Result("None", {}, "empty")
            ELSE IF span # << >> /\ json_loads(span).ok
                 THEN Result("dict", fix_anexo(json_loads(span).val, pdf_filename), "span")
            ELSE IF starts # {}
                 THEN Result("dict", fix_anexo(json_loads(From(cleaned, Min(starts))).val,
                                               pdf_filename), "suffix")
            ELSE IF full.ok
                 THEN IF IsObject(full.val)
                      THEN Result("dict", fix_anexo(full.val, pdf_filename), "full")
                      ELSE Result("None", {}, "error")
            ELSE Result("dict", Fallback(cleaned, pdf_filename), "fallback")

\* re.search(r'(\{\s*"[^"]+"\s*:)', text)
HasObjectStart(text) ==
    \E i \in 1..Len(text) :
        /\ text[i] = "{"
        /\ LET q == SkipWs(text, i + 1)
               close == { j \in (q + 1)..Len(text) : text[j] = QUOTE }
           IN  /\ At(text, q) = QUOTE
               /\ close # {}
               /\ Min(close) > q + 1
               /\ At(text, SkipWs(text, Min(close) + 1)) = ":"

\* re.search(r',\s*"[^"]+"\s*:\s*$', text)
EndsInProperty(text) ==
    \E i \in 1..Len(text) :
        /\ text[i] = ","
        /\ LET q == SkipWs(text, i + 1)
               close == { j \in (q + 1)..Len(text) : text[j] = QUOTE }
           IN  /\ At(text, q) = QUOTE
               /\ close # {}
               /\ Min(close) > q + 1
               /\ At(text, SkipWs(text, Min(close) + 1)) = ":"
               /\ SkipWs(text, SkipWs(text, Min(close) + 1) + 1) = Len(text) + 1

\* DoclingGeminiApp.try_repair_truncated_json (lines 1401-1472); assigning
\* the field to a parsed value that is not a dict raises, and None is returned
try_repair_truncated_json(raw_response, current_pdf_path) ==
    LET \* lines 1438-1456: the text after the three repairs
        Mend(cleaned) ==
            LET rstrip(s) ==
                    LET keep == { i \in 1..Len(s) : s[i] \notin Whitespace }
                    IN  IF keep = {} THEN << >> ELSE SubSeq(s, 1, Max(keep))
                \* str.rstrip(",")
                rstrip_commas(s) ==
                    LET keep == { i \in 1..Len(s) : s[i] # "," }
                    IN  IF keep = {} THEN << >> ELSE SubSeq(s, 1, Max(keep))
            IN  LET open_braces == count(cleaned, "{")
                    close_braces == count(cleaned, "}")
                    a == IF open_braces > close_braces
                         THEN cleaned \o Repeat("}", open_braces - close_braces) ELSE cleaned
                    b == IF EndsInProperty(a) THEN a \o <<" ", QUOTE>> \o V_Parcial \o <<QUOTE>> ELSE a
                IN  IF endswith(rstrip(b), <<",">>)
                    THEN rstrip_commas(rstrip(b)) \o <<"\n", "}">> ELSE b
    IN  LET pdf_filename == IF current_pdf_path # << >> THEN basename(current_pdf_path)
                            ELSE <<"d", "o", "c", "u", "m", "e", "n", "t", "o", ".", "p", "d", "f">>
            cleaned == Clean(raw_response)
            direct == json_loads(cleaned)
            mended == json_loads(Mend(cleaned))
            Set(v) == IF IsObject(v)
                      THEN ([kind |-> "dict", val |-> (SetItem(v, K_anexo_contrato, expected_anexo(pdf_filename)))])
                      ELSE NoneResult
        IN  IF direct.ok THEN Set(direct.val)
            ELSE IF ~HasObjectStart(cleaned) THEN NoneResult
            ELSE IF mended.ok THEN Set(mended.val)
            ELSE NoneResult

----------------------------------------------------------------------------
(* The responses of the model and the documents *)
B_other_anexo == <<"{", QUOTE, "a", "n", "e", "x", "o", "_", "c", "o", "n", "t", "r", "a", "t", "o", QUOTE, ":", QUOTE, "s", "3", ":", "/", "/", "x", QUOTE, ",", QUOTE, "a", QUOTE, ":", "1", "}">>  \* {"anexo_contrato":"s3://x","a":1}

\* complete objects, and the texts left when the last n characters are lost

Originals ==
    {
        <<"{", QUOTE, "a", QUOTE, ":", QUOTE, "x", QUOTE, ",", QUOTE, "b", QUOTE, ":", "1", "2", "3", "}">>,  \* {"a":"x","b":123}
        <<"{", QUOTE, "a", QUOTE, ":", "{", QUOTE, "c", QUOTE, ":", "1", "}", ",", QUOTE, "b", QUOTE, ":", QUOTE, "y", "z", QUOTE, "}">>  \* {"a":{"c":1},"b":"yz"}
    }

Truncated(o, n) == SubSeq(o, 1, Len(o) - n)

Bodies ==
    LET Truncations == { Truncated(o, n) : o \in Originals, n \in 1..MaxCut }
    IN  Truncations \cup {
            B_other_anexo,
            <<"{", QUOTE, "a", QUOTE, ":", " ", QUOTE, "x", QUOTE, "}">>,  \* {"a": "x"}
            <<"{", QUOTE, "a", QUOTE, ":", "1", ",", QUOTE, "a", "n", "e", "x", "o", "_", "c", "o", "n", "t", "r", "a", "t", "o", QUOTE, ":", QUOTE, "s", "3", ":", "/", "/", "c", "o", "m", "p", "r", "a", "s", "-", "i", "a", "-", "n", "p", "/", "C", "o", "n", "t", "r", "a", "t", "o", "s", "/", "d", "o", "c", ".", "p", "d", "f", QUOTE, "}">>,  \* {"a":1,"anexo_contrato":"s3://compras-ia-np/Contratos/doc.pdf"}
            <<"{", QUOTE, "a", QUOTE, ":", QUOTE, "x", BT, BT, BT, "y", QUOTE, "}">>,  \* {"a":"x(backquote)(backquote)(backquote)y"}
            <<"{", QUOTE, "a", QUOTE, ":", "{", QUOTE, "b", QUOTE, ":", "[", "1", ",", "2", "]", "}", ",", QUOTE, "c", QUOTE, ":", "n", "u", "l", "l", "}">>,  \* {"a":{"b":[1,2]},"c":null}
            <<"{", QUOTE, "s", "t", "a", "t", "u", "s", "_", "e", "x", "t", "r", "a", "c", "a", "o", QUOTE, ":", QUOTE, "F", "a", "l", "h", "a", QUOTE, "}">>,  \* {"status_extracao":"Falha"}
            <<"{", QUOTE, "s", "t", "a", "t", "u", "s", "_", "e", "x", "t", "r", "a", "c", "a", "o", QUOTE, ":", QUOTE, "P", "a", "r", "c", "i", "a", "l", QUOTE, ",", QUOTE, "a", QUOTE, ":", QUOTE, "x", QUOTE, "}">>,  \* {"status_extracao":"Parcial","a":"x"}
            <<"[", "1", "]">>,  \* [1]
            <<"1", "2">>,  \* 12
            <<QUOTE, "s", QUOTE>>,  \* "s"
            <<"[", "{", QUOTE, "a", QUOTE, ":", "1", "}", "]">>,  \* [{"a":1}]
            <<"{", QUOTE, "a", QUOTE, ":", "1", "}", " ", "e", " ", "{", QUOTE, "b", QUOTE, ":", "2", "}">>,  \* {"a":1} e {"b":2}
            <<"D", "e", "s", "c", "u", "l", "p", "e">>,  \* Desculpe
            <<"{", QUOTE, "a", QUOTE, ":", QUOTE, "x", QUOTE, ",", QUOTE, "b", QUOTE, ":">>,  \* {"a":"x","b":
            <<"{", QUOTE, "a", QUOTE, ":", QUOTE, "x", QUOTE, ",", QUOTE, "b", QUOTE, ":", "1", "2">>,  \* {"a":"x","b":12
            <<"{", QUOTE, "a", QUOTE, ":", QUOTE, "x", QUOTE, ",">>,  \* {"a":"x",
            <<"{", QUOTE, "a", QUOTE, ":", "{", QUOTE, "b", QUOTE, ":", "1", "}">>,  \* {"a":{"b":1}
            <<>>,  \*
            Repeat("x", FallbackLimit + 1)
        }

Replies == [pre : { << >>, FENCE_JSON \o <<"\n">>, FENCE \o <<"\n">>, <<"S", "e", "g", "u", "e", ":", " ">> }, body : Bodies, post : { << >>, <<"\n">> \o FENCE, <<"\n">> \o FENCE \o <<"\n">> }]

\* the model answers r for the document at path p
Respond(r, p) ==
    /\ tpc = "idle"
    /\ reply' = r
    /\ raw_output' = r.pre \o r.body \o r.post
    /\ pdf_path' = p
    /\ tpc' = "responded"
    /\ UNCHANGED <<json_result, repaired, current_json_result, handled>>

Analyze ==
    /\ tpc = "responded"
    /\ json_result' = analyze_with_gemini(raw_output, pdf_path)
    /\ tpc' = "analyzed"
    /\ UNCHANGED <<reply, raw_output, pdf_path, repaired, current_json_result, handled>>

Repair ==
    /\ tpc = "analyzed"
    /\ repaired' = try_repair_truncated_json(raw_output, pdf_path)
    /\ tpc' = "repaired"
    /\ UNCHANGED <<reply, raw_output, pdf_path, json_result, current_json_result, handled>>

\* DoclingGeminiApp.process_pdf from the analysis result on (lines 1516-1645)
process_pdf ==
    LET result == [kind |-> json_result.kind, val |-> json_result.val]
        repaired_json == try_repair_truncated_json(raw_output, pdf_path)
    IN  /\ tpc = "analyzed"
        /\ IF json_result.kind = "None"
           THEN /\ current_json_result' = NoneResult
                /\ handled' = [branch |-> "None", repaired_json |-> NoneResult]
           ELSE IF HasStr(json_result.val, K_status_extracao, V_Falha)
           THEN \* line 1555 stores the repaired object when there is one, and
                \* line 1608 stores the analysis result after it
                /\ current_json_result' = result
                /\ handled' = [branch |-> "Falha", repaired_json |-> repaired_json]
           ELSE /\ current_json_result' =
                      [result EXCEPT !.val = SetItem(@, K_anexo_contrato,
                                                     expected_anexo(basename(pdf_path)))]
                /\ handled' = [branch |-> "else", repaired_json |-> NoneResult]
        /\ tpc' = "processed"
        /\ UNCHANGED <<reply, raw_output, pdf_path, json_result, repaired>>

\* the next document is taken up
NextDocument ==
    /\ tpc \in {"repaired", "processed"}
    /\ reply' = [pre |-> << >>, body |-> << >>, post |-> << >>]
    /\ raw_output' = << >>
    /\ pdf_path' = << >>
    /\ json_result' = [kind |-> "None", val |-> {}, via |-> "", cleaned |-> << >>]
    /\ repaired' = NoneResult
    /\ current_json_result' = NoneResult
    /\ handled' = [branch |-> "", repaired_json |-> NoneResult]
    /\ tpc' = "idle"

NextText ==
    \/ \E r \in Replies, p \in { <<"/", "i", "n", "/", "d", "o", "c", ".", "p", "d", "f">>, <<"e", "d", "i", "t", "a", "l", " ", "2", "-", "A", ".", "p", "d", "f">> } : Respond(r, p) /\ UNCHANGED <<dbvars, scriptvars, racevars>>
    \/ Analyze /\ UNCHANGED <<dbvars, scriptvars, racevars>>
    \/ Repair /\ UNCHANGED <<dbvars, scriptvars, racevars>>
    \/ process_pdf /\ UNCHANGED <<dbvars, scriptvars, racevars>>
    \/ NextDocument /\ UNCHANGED <<dbvars, scriptvars, racevars>>

SpecText == Init /\ [][NextText]_vars

----------------------------------------------------------------------------
(* Properties of the text functions *)
AnexoNodes(v) == { n \in v : Len(n[1]) >= 1 /\ n[1][1] = K_anexo_contrato }

DeterministicAnexo == { << <<K_anexo_contrato>>, "str", expected_anexo(basename(pdf_path)) >> }

\* C8: every object returned by analyze_with_gemini (parsed by any strategy
\* or the fallback) and every object returned by try_repair_truncated_json
\* has anexo_contrato = s3://compras-ia-np/Contratos/<basename of the PDF
\* path>, whatever the model wrote in that field.
C8_AnexoIsDeterministic ==
    /\ (tpc \in {"analyzed", "repaired"} /\ json_result.kind = "dict")
          => AnexoNodes(json_result.val) = DeterministicAnexo
    /\ (tpc = "repaired" /\ repaired.kind = "dict")
          => AnexoNodes(repaired.val) = DeterministicAnexo

C8_Witness ==
    /\ tpc = "repaired"
    /\ reply.body = B_other_anexo
    /\ Len(basename(pdf_path)) < Len(pdf_path)
    /\ json_result.kind = "dict"
    /\ json_result.via = "span"
    /\ repaired.kind = "dict"

\* C9: for a response whose cleaned text is not empty analyze_with_gemini
\* returns an object, never None: the parsed object, or, when every strategy
\* fails, the fallback with status_extracao 'Falha', the first 1000
\* characters of the cleaned text and the deterministic URL.
C9_AlwaysAnObject ==
    (tpc \in {"analyzed", "repaired"} /\ Clean(raw_output) # << >>) =>
        /\ json_result.kind = "dict"
        /\ json_result.via = "fallback" =>
              /\ HasStr(json_result.val, K_status_extracao, V_Falha)
              /\ \E n \in json_result.val :
                    /\ n[1] = <<<<"r", "e", "s", "p", "o", "s", "t", "a", "_", "m", "o", "d", "e", "l", "o">>>>
                    /\ IsPrefix(SubSeq(Clean(raw_output), 1,
                                       IF Len(Clean(raw_output)) > FallbackLimit
                                       THEN FallbackLimit ELSE Len(Clean(raw_output))),
                                n[3])
              /\ AnexoNodes(json_result.val) = DeterministicAnexo

FencePrefixes == { FENCE_JSON \o <<"\n">>, FENCE \o <<"\n">> }
FenceSuffixes == { <<"\n">> \o FENCE, <<"\n">> \o FENCE \o <<"\n">> }

\* C10: for a well-formed JSON object wrapped in a code fence, the cleaned
\* text parses to exactly the object that the unwrapped text parses to.
C10_FencedRoundTrip ==
    ( /\ tpc \in {"analyzed", "repaired"}
      /\ reply.pre \in FencePrefixes
      /\ reply.post \in FenceSuffixes
      /\ json_loads(reply.body).ok
      /\ IsObject(json_loads(reply.body).val) ) =>
        /\ json_loads(json_result.cleaned).ok
        /\ json_loads(json_result.cleaned).val = json_loads(reply.body).val

\* the top-level keys of object v, and what v holds under key k
TopKeys(v) == { n[1][1] : n \in { m \in v : Len(m[1]) >= 1 } }
Field(v, k) == { n \in v : Len(n[1]) >= 1 /\ n[1][1] = k }

\* the keys of object text o whose "key": value lies wholly in the first
\* Len(o) - n characters: closing the object right after the value gives an
\* object that holds the original value under that key
FullyPresent(o, n) ==
    { k \in TopKeys(json_loads(o).val) :
        \E j \in 1..(Len(o) - n) :
            /\ At(o, SkipWs(o, j + 1)) \in {",", "}"}
            /\ json_loads(SubSeq(o, 1, j) \o <<"}">>).ok
            /\ Field(json_loads(SubSeq(o, 1, j) \o <<"}">>).val, k) = Field(json_loads(o).val, k)
            /\ Field(json_loads(o).val, k) # {} }

\* C11: for an object text that lost its last n characters,
\* try_repair_truncated_json returns None or an object in which every field
\* wholly present before the cut has its original value and every value is
\* one of the original (the "Parcial" placeholder and anexo_contrato apart):
\* no prefix of a number or literal cut mid-token is returned as a value.
C11_RepairInventsNoValue ==
    \A o \in Originals : \A n \in 1..(Len(o) - 1) :
        ( /\ tpc = "repaired"
          /\ raw_output = Truncated(o, n)
          /\ repaired.kind = "dict" ) =>
            /\ \A k \in FullyPresent(o, n) :
                  Field(repaired.val, k) = Field(json_loads(o).val, k)
            /\ \A node \in repaired.val :
                  \/ node \in json_loads(o).val
                  \/ node \in AnexoNodes(repaired.val)
                  \/ node[2] = "str" /\ node[3] = V_Parcial

\* the key of the "key": the text ends with
LastKey(text) ==
    LET quotes == { i \in 1..Len(text) : text[i] = QUOTE }
        last == Max(quotes)
        first == Max(quotes \ {last})
    IN  SubSeq(text, first + 1, last - 1)

\* the text is an object cut right after the colon of a property that is not
\* its first one, its opening brace still open
EndsMidProperty(text) ==
    /\ HasObjectStart(text)
    /\ EndsInProperty(text)
    /\ count(text, "{") > count(text, "}")

\* C12: for a truncated object ending mid-property (,"key": and nothing
\* after, the opening brace unclosed) try_repair_truncated_json returns an
\* object that maps that key to the string "Parcial".
C12_MidPropertyGetsParcial ==
    (tpc = "repaired" /\ EndsMidProperty(Clean(raw_output))) =>
        /\ repaired.kind = "dict"
        /\ HasStr(repaired.val, LastKey(Clean(raw_output)), V_Parcial)

----------------------------------------------------------------------------
(* Python str and SQL text, for generate_sql_script (repoSQL.py) *)

\* the characters of a str, and the str of a sequence of characters
Chars(s) == [i \in 1..Len(s) |-> SubSeq(s, i, i)]

RECURSIVE Str(_)
Str(q) == IF q = << >> THEN "" ELSE q[1] \o Str(Tail(q))

\* str.lower(), on the characters
lower(q) ==
    LET UPPER == <<"A", "B", "C", "D", "E", "F", "G", "H", "I", "J", "K", "L", "M", "N", "O", "P", "Q", "R", "S", "T", "U", "V", "W", "X", "Y", "Z">>
        LOWER == <<"a", "b", "c", "d", "e", "f", "g", "h", "i", "j", "k", "l", "m", "n", "o", "p", "q", "r", "s", "t", "u", "v", "w", "x", "y", "z">>
    IN  [i \in 1..Len(q) |->
            IF \E k \in 1..Len(UPPER) : UPPER[k] = q[i]
            THEN LOWER[CHOOSE k \in 1..Len(UPPER) : UPPER[k] = q[i]]
            ELSE q[i]]

script_url(file) ==
    LET pdf_filename == IF endswith(lower(Chars(file)), Chars(".pdf"))
                        THEN file ELSE file \o ".pdf"
    IN  S3Prefix \o pdf_filename

\* (x or "")
or_empty(v) == IF Truthy(v) THEN v ELSE ""

\* "".join(by if ch == "'" else ch for ch in q)
RECURSIVE replace_quotes(_, _)
replace_quotes(q, by) ==
    IF q = << >> THEN ""
    ELSE (IF q[1] = "'" THEN by ELSE q[1]) \o replace_quotes(Tail(q), by)

\* (x or "").replace("'", "''") and (x or "").replace("'", "")
escape(v) == replace_quotes(Chars(or_empty(v)), "''")
unquote(v) == replace_quotes(Chars(or_empty(v)), "")

\* {x} in an f-string: None is written as the word None
fstr(v) == IF v = NULL THEN "None" ELSE v

\* '{x}' in the template
Lit(text) == "'" \o text \o "'"

\* lines 503-510
data_sql(data_celebracao) ==
    LET \* re.match(r'^\d{2}/\d{2}/\d{4}$', s)
        date_pattern(s) ==
            LET c == Chars(s)
            IN  /\ Len(c) = 10
                /\ \A i \in {1, 2, 4, 5, 7, 8, 9, 10} : c[i] \in Digits
                /\ c[3] = "/"
                /\ c[6] = "/"
    IN  IF Truthy(data_celebracao) /\ date_pattern(data_celebracao)
        THEN "TO_DATE(" \o Lit(data_celebracao) \o ", 'DD/MM/YYYY')"
        ELSE "NULL"

\* lines 482-614: the three statements of the script, by the SQL text put
\* in each place of the template; the cnpj texts of orgao and empresa are
\* also the ones compared in the two sub-selects of the contract statement,
\* url_pdf_s3 the one compared in its NOT EXISTS and in contrato_id
BuildScript(c, valid_items) ==
    LET \* the values written between quotes into the SELECT of one item (lines 583-610)
        ItemLiterals(item) ==
            [descricao      |-> Lit(escape(item.descricao)),
             especificacao  |-> Lit(escape(item.especificacao)),
             unidade_medida |-> Lit(escape(item.unidade_medida)),
             quantidade     |-> Lit(unquote(item.quantidade)),
             valor_unitario |-> Lit(unquote(item.valor_unitario)),
             valor_total    |-> Lit(unquote(item.valor_total)),
             catmat_catser  |-> Lit(unquote(item.catmat_catser)),
             tipo           |-> Lit(escape(item.tipo)),
             locais_execucao_entrega |-> Lit(escape(item.locais_execucao_entrega))]
    IN  [kind |-> "inserts",
         comment |-> "",
         orgao |-> [razao_social |-> Lit(escape(c.orgao_contratante.razao_social)),
                    sigla        |-> Lit(escape(c.orgao_contratante.sigla)),
                    cnpj         |-> Lit(fstr(c.orgao_contratante.cnpj))],
         empresa |-> [razao_social |-> Lit(escape(c.empresa_contratada.razao_social)),
                      cnpj         |-> Lit(fstr(c.empresa_contratada.cnpj))],
         contrato |-> [numero_contrato  |-> Lit(escape(c.numero_contrato)),
                       tipo_instrumento |-> Lit(escape(c.tipo_instrumento)),
                       processo_administrativo |-> Lit(escape(c.processo_administrativo)),
                       data_sql         |-> data_sql(c.data_celebracao),
                       fonte_preco      |-> Lit(escape(c.fonte_preco)),
                       referencia_contrato |-> Lit(escape(c.referencia_contrato)),
                       url_pdf_s3       |-> Lit(escape(c.url_pdf_s3)),
                       status_extracao  |-> Lit(escape(c.status_extracao))],
         itens |-> [i \in 1..Len(valid_items) |-> ItemLiterals(valid_items[i])]]

\* a lookup by url that never finds the row
no_contrato_by_url(t, url_pdf_s3) == {}

\* line 471: SELECT id FROM precos.contratos WHERE url_pdf_s3 = %s LIMIT 1
contrato_ids_by_url(t, url_pdf_s3) ==
    { r.id : r \in { x \in Rows(t.contratos) : x.url_pdf_s3 = url_pdf_s3 } }

----------------------------------------------------------------------------
(* PostgreSQL reading the script *)

\* the string constant that starts at the first character of text: two
\* quotes inside stand for one, a single quote ends it; ok says that the
\* constant ends exactly where text ends
RECURSIVE ScanLiteral(_, _, _)
ScanLiteral(c, i, acc) ==
    IF i > Len(c) THEN [ok |-> FALSE, value |-> acc]
    ELSE IF c[i] = "'"
         THEN IF At(c, i + 1) = "'" THEN ScanLiteral(c, i + 2, acc \o "'")
              ELSE [ok |-> i = Len(c), value |-> acc]
    ELSE ScanLiteral(c, i + 1, acc \o c[i])

ReadLiteral(text) ==
    IF At(Chars(text), 1) # "'" THEN [ok |-> FALSE, value |-> ""]
    ELSE ScanLiteral(Chars(text), 2, "")

\* NULL, or TO_DATE('<text>', 'DD/MM/YYYY'), which fails on a day that
\* does not exist
ReadDate(text) ==
    IF text = "NULL" THEN [ok |-> TRUE, value |-> NULL]
    ELSE LET lit == ReadLiteral(SubSeq(text, 9, Len(text) - 15))
         IN  [ok |-> lit.ok /\ lit.value \in {"15/03/2024"}, value |-> lit.value]

ItemFields ==
    {"descricao", "especificacao", "unidade_medida", "quantidade", "valor_unitario",
     "valor_total", "catmat_catser", "tipo", "locais_execucao_entrega"}

ContratoTextFields ==
    {"numero_contrato", "tipo_instrumento", "processo_administrativo", "fonte_preco",
     "referencia_contrato", "url_pdf_s3", "status_extracao"}

\* what (SELECT id ... WHERE cnpj = '...' LIMIT 1) can give: an id of a
\* matching row, the null id when there is none

\* the WITH contrato_upsert ..., contrato_id ... INSERT INTO precos.itens
\* statement: the tables it can leave.  The contract row is inserted when no
\* row has the url; contrato_id is the new id, or else the id of a row with
\* the url; one item row is inserted per SELECT ... FROM contrato_id
ExecContrato(t, s) ==
    LET \* the row the SELECT of contrato_upsert builds
        ScriptContratoRow(orgao_id, empresa_id) ==
            [id |-> Len(t.contratos) + 1,
             numero_contrato  |-> ReadLiteral(s.contrato.numero_contrato).value,
             tipo_instrumento |-> ReadLiteral(s.contrato.tipo_instrumento).value,
             processo_administrativo |-> ReadLiteral(s.contrato.processo_administrativo).value,
             data_celebracao  |-> ReadDate(s.contrato.data_sql).value,
             fonte_preco      |-> ReadLiteral(s.contrato.fonte_preco).value,
             referencia_contrato |-> ReadLiteral(s.contrato.referencia_contrato).value,
             url_pdf_s3       |-> ReadLiteral(s.contrato.url_pdf_s3).value,
             status_extracao  |-> ReadLiteral(s.contrato.status_extracao).value,
             orgao_contratante_id |-> orgao_id,
             empresa_contratada_id |-> empresa_id]
        \* the row one SELECT ... FROM contrato_id builds
        ScriptItemRow(lits, contrato_id) ==
            [contrato_id |-> contrato_id,
             descricao      |-> ReadLiteral(lits.descricao).value,
             especificacao  |-> ReadLiteral(lits.especificacao).value,
             unidade_medida |-> ReadLiteral(lits.unidade_medida).value,
             quantidade     |-> ReadLiteral(lits.quantidade).value,
             valor_unitario |-> ReadLiteral(lits.valor_unitario).value,
             valor_total    |-> ReadLiteral(lits.valor_total).value,
             catmat_catser  |-> ReadLiteral(lits.catmat_catser).value,
             tipo           |-> ReadLiteral(lits.tipo).value,
             locais_execucao_entrega |-> ReadLiteral(lits.locais_execucao_entrega).value]
        \* a scalar sub-select with no row is NULL
        IdsOrNull(ids) == IF ids = {} THEN {NoId} ELSE ids
        url == ReadLiteral(s.contrato.url_pdf_s3).value
        existing == contrato_ids_by_url(t, url)
        orgao_ids == IdsOrNull(get_orgao_contratante_by_cnpj(t, ReadLiteral(s.orgao.cnpj).value))
        empresa_ids == IdsOrNull(get_empresa_contratada_by_cnpj(t, ReadLiteral(s.empresa.cnpj).value))
        WithItems(u, cid) ==
            [u EXCEPT !.itens = @ \o [i \in 1..Len(s.itens) |-> ScriptItemRow(s.itens[i], cid)]]
    IN  IF existing = {}
        THEN { WithItems([t EXCEPT !.contratos = Append(@, ScriptContratoRow(o, e))],
                         Len(t.contratos) + 1) : o \in orgao_ids, e \in empresa_ids }
        ELSE { WithItems(t, cid) : cid \in existing }

ExecStmt(t, s, n) ==
    LET \* INSERT INTO precos.orgao_contratante ... ON CONFLICT (cnpj) DO NOTHING
        ExecOrgao ==
            LET orgao == [razao_social |-> ReadLiteral(s.orgao.razao_social).value,
                          sigla        |-> ReadLiteral(s.orgao.sigla).value,
                          cnpj         |-> ReadLiteral(s.orgao.cnpj).value]
            IN  IF \E r \in Rows(t.orgao_contratante) : r.cnpj = orgao.cnpj THEN t
                ELSE [t EXCEPT !.orgao_contratante = Append(@, OrgaoRow(t, orgao))]
        \* INSERT INTO precos.empresa_contratada ... ON CONFLICT (cnpj) DO NOTHING
        ExecEmpresa ==
            LET empresa == [razao_social |-> ReadLiteral(s.empresa.razao_social).value,
                            cnpj         |-> ReadLiteral(s.empresa.cnpj).value]
            IN  IF \E r \in Rows(t.empresa_contratada) : r.cnpj = empresa.cnpj THEN t
                ELSE [t EXCEPT !.empresa_contratada = Append(@, EmpresaRow(t, empresa))]
    IN  IF n = 1 THEN {ExecOrgao} ELSE IF n = 2 THEN {ExecEmpresa} ELSE ExecContrato(t, s)

\* execute_sql_script.py line 52: the script is cut at each semicolon that
\* has an even number of quotes between it and the end of the text.  The
\* commands, each the set of statements it holds; a comment script is one
\* command with no statement
Commands(s) ==
    LET Quotes(text) == count(Chars(text), "'")
        RECURSIVE SumQuotes(_, _)
        SumQuotes(rec, fields) ==
            IF fields = {} THEN 0
            ELSE LET f == CHOOSE x \in fields : TRUE
                 IN  Quotes(rec[f]) + SumQuotes(rec, fields \ {f})
        RECURSIVE ItemQuotes(_, _)
        ItemQuotes(itens, i) ==
            IF i > Len(itens) THEN 0
            ELSE SumQuotes(itens[i], ItemFields) + ItemQuotes(itens, i + 1)
        \* the number of quote characters in statement n of the script
        StmtQuotes(n) ==
            IF n = 1 THEN SumQuotes(s.orgao, {"razao_social", "sigla", "cnpj"})
            ELSE IF n = 2 THEN SumQuotes(s.empresa, {"razao_social", "cnpj"})
            ELSE SumQuotes(s.contrato, ContratoTextFields) + Quotes(s.contrato.data_sql)
                 + Quotes(s.orgao.cnpj) + Quotes(s.empresa.cnpj)
                 + 2 * Quotes(s.contrato.url_pdf_s3) + ItemQuotes(s.itens, 1)
        cut1 == (StmtQuotes(2) + StmtQuotes(3)) % 2 = 0
        cut2 == StmtQuotes(3) % 2 = 0
    IN  IF s.kind # "inserts" THEN << {} >>
        ELSE IF cut1 /\ cut2 THEN << {1}, {2}, {3} >>
        ELSE IF cut1 THEN << {1}, {2, 3} >>
        ELSE IF cut2 THEN << {1, 2}, {3} >>
        ELSE << {1, 2, 3} >>

\* the server accepts the command: it is not empty and each of its
\* statements is well formed
CommandOk(s, cmd) ==
    LET OrgaoOk == \A f \in {"razao_social", "sigla", "cnpj"} : ReadLiteral(s.orgao[f]).ok
        EmpresaOk == \A f \in {"razao_social", "cnpj"} : ReadLiteral(s.empresa[f]).ok
        ContratoOk ==
            /\ \A f \in ContratoTextFields : ReadLiteral(s.contrato[f]).ok
            /\ ReadDate(s.contrato.data_sql).ok
            /\ ReadLiteral(s.orgao.cnpj).ok
            /\ ReadLiteral(s.empresa.cnpj).ok
            /\ \A i \in 1..Len(s.itens) : \A f \in ItemFields : ReadLiteral(s.itens[i][f]).ok
        \* statement n of the script is accepted by the server
        StmtOk(n) == IF n = 1 THEN OrgaoOk ELSE IF n = 2 THEN EmpresaOk ELSE ContratoOk
    IN  cmd # {} /\ \A n \in cmd : StmtOk(n)

\* the tables a sequence of statements can leave
RECURSIVE ExecStmts(_, _, _)
ExecStmts(t, s, stmts) ==
    IF stmts = {} THEN {t}
    ELSE LET n == Min(stmts)
         IN  UNION { ExecStmts(u, s, stmts \ {n}) : u \in ExecStmt(t, s, n) }

----------------------------------------------------------------------------
(* The payloads and file names of the script route *)
SItem(d, c, q, t) ==
    [descricao |-> d, especificacao |-> ABSENT, unidade_medida |-> "un",
     quantidade |-> q, valor_unitario |-> "R$ 1,00", valor_total |-> ABSENT,
     catmat_catser |-> c, tipo |-> t, locais_execucao_entrega |-> ABSENT]

SPayload(numero, url, dt, oc, ec, itens) ==
    [numero_contrato |-> numero, tipo_instrumento |-> ABSENT,
     processo_administrativo |-> ABSENT, data_celebracao |-> dt,
     fonte_preco |-> ABSENT, referencia_contrato |-> ABSENT,
     url_pdf_s3 |-> url, anexo_contrato |-> ABSENT, status_extracao |-> ABSENT,
     orgao_contratante |-> oc, empresa_contratada |-> ec, itens |-> itens]

Org(r, s, c) == Obj([razao_social |-> r, sigla |-> s, cnpj |-> c])

\* a payload with no valid item, no sub-objects and one valid item
SP_mixed ==
    SPayload("123", ABSENT, "15/03/2024", NoObj, Org("Ec", ABSENT, NULL),
             ItemsList(<< SItem("z", "ZZ", "2", ABSENT), SItem("x", "A1", NULL, "Servico") >>))

ScriptPayloads ==
    { \* two valid items, a date
      SPayload("123", ABSENT, "15/03/2024", Org("Ra", ABSENT, "1"), Org("Ea", ABSENT, "2"),
               ItemsList(<< SItem("x", "A1", "2", ABSENT), SItem("y", "S1", "3", "Servico") >>)),
      \* quotes in a name, a number, a description and a quantity
      SPayload("12'3", ABSENT, "N/A", Org("D'Avila", "SG", "1"), Org("Ea", ABSENT, "2"),
               ItemsList(<< SItem("x'y", "A1", "1'000", ABSENT) >>)),
      \* a quote in the cnpj of the organization, of the company
      SPayload("123", ABSENT, ABSENT, Org("Ra", ABSENT, "1'2"), Org("Ea", ABSENT, "2"),
               ItemsList(<< SItem("x", "A1", "2", ABSENT) >>)),
      SPayload("123", ABSENT, ABSENT, Org("Ra", ABSENT, "1"), Org("Ea", ABSENT, "2'"),
               ItemsList(<< SItem("x", "A1", "2", ABSENT) >>)),
      \* no valid item
      SPayload("123", UrlOf("doc.pdf"), ABSENT, Org("Ra", ABSENT, "1"), Org("Ea", ABSENT, "2"),
               ItemsList(<< SItem("z", "ZZ", "2", ABSENT), SItem("l", "a1", "2", ABSENT),
                            SItem("n", NULL, "2", ABSENT), SItem("e", "", "2", ABSENT) >>)),
      \* "orgao_contratante" missing, "empresa_contratada": null, "itens" missing
      SPayload("456", ABSENT, ABSENT, NoObj,
               [present |-> TRUE, null |-> TRUE, obj |-> EmptyObj], NoItems),
      \* "itens": null
      SPayload("456", ABSENT, ABSENT, Org("Ra", ABSENT, "1"), Org("Ea", ABSENT, "2"),
               [present |-> TRUE, null |-> TRUE, list |-> << >>]),
      SP_mixed }

----------------------------------------------------------------------------
(* generate_and_save_sql / generate_sql_script and execute_sql_script *)

OpenConn == [status |-> "ready"]

\* the exceptions an operation on connection c can raise now; psycopg2
\* marks a connection that was lost as broken, and close() marks it closed
SRaisable(c) ==
    IF c.status \in {"broken", "closed"} THEN {E_conn}
    ELSE IF c.status = "aborted" THEN {E_stmt}
    ELSE IF nfaults < MaxFaults THEN Errors ELSE {}

SCounted(c) == IF c.status \in {"ready", "intrans"} THEN nfaults + 1 ELSE nfaults

SAfterErr(c, e) ==
    IF c.status \in {"broken", "closed"} THEN c
    ELSE IF e = E_conn THEN [status |-> "broken"]
    ELSE [status |-> "aborted"]

\* a document is taken up: its payload goes to persist_contract on db and to
\* generate_and_save_sql on sdb; a payload ContractParser.parse raises on
\* never reaches persist_contract
Start(p, f) ==
    /\ spc = "idle"
    /\ run.n < MaxScripts
    /\ IF ParseRaises(p) THEN pc = "idle" /\ UNCHANGED dbvars ELSE Call(p, f)
    /\ json_data' = p
    /\ sfile' = f
    /\ run' = [run EXCEPT !.same = (Business(db) = Business(sdb))]
    /\ spc' = "parse"
    /\ UNCHANGED <<scontrato, script, sdb, swork, sconn>>

\* extrator2.py line 362
ParseJson ==
    /\ spc = "parse"
    /\ pc = "idle"
    /\ ~ParseRaises(json_data)
    /\ scontrato' = Parse(json_data)
    /\ spc' = "connect"
    /\ UNCHANGED <<json_data, sfile, script, sdb, swork, sconn, run>>

\* parse raises: generate_and_save_sql prints the error and returns None
ParseJsonRaises ==
    /\ spc = "parse"
    /\ pc = "idle"
    /\ ParseRaises(json_data)
    /\ run' = [run EXCEPT !.raised = "TypeError"]
    /\ spc' = "gen_failed"
    /\ UNCHANGED <<json_data, sfile, scontrato, script, sdb, swork, sconn>>

\* repoSQL.py line 438
GenConnect ==
    /\ spc = "connect"
    /\ sconn' = OpenConn
    /\ swork' = sdb
    /\ spc' = "gfilter"
    /\ UNCHANGED <<json_data, sfile, scontrato, script, sdb, run, nfaults>>

\* psycopg2.connect raises: no connection exists
GenConnectRaises ==
    /\ spc = "connect"
    /\ nfaults < MaxFaults
    /\ nfaults' = nfaults + 1
    /\ sconn' = NoConn
    /\ run' = [run EXCEPT !.raised = E_conn]
    /\ spc' = "gen_failed"
    /\ UNCHANGED <<json_data, sfile, scontrato, script, sdb, swork>>

\* lines 451-458
GenFilter ==
    LET \* line 458 and line 476: the text is one comment line
        CommentNoItems(file) ==
            [NoScript EXCEPT !.kind = "comment",
                !.comment = "-- Contrato de " \o file \o " não possui itens válidos. Nenhuma ação realizada."]
    IN  /\ spc = "gfilter"
        /\ LET valid_items == ValidItems(swork, scontrato.itens)
           IN  /\ run' = [run EXCEPT !.valid_items = valid_items]
               /\ IF valid_items = << >>
                  THEN script' = CommentNoItems(sfile) /\ spc' = "gclose"
                  ELSE script' = script /\ spc' = "gexisting"
        /\ sconn' = IF Queried(scontrato.itens) # {} THEN [status |-> "intrans"] ELSE sconn
        /\ UNCHANGED <<json_data, sfile, scontrato, sdb, swork, nfaults>>

\* a lookup of the loop raises: the finally clause is next
GenFilterRaises(e) ==
    /\ spc = "gfilter"
    /\ Queried(scontrato.itens) # {}
    /\ e \in SRaisable(sconn)
    /\ nfaults' = SCounted(sconn)
    /\ sconn' = SAfterErr(sconn, e)
    /\ run' = [run EXCEPT !.raised = e]
    /\ spc' = "gclose"
    /\ UNCHANGED <<json_data, sfile, scontrato, script, sdb, swork>>

\* lines 461-614
GenExisting ==
    LET CommentExists(url_pdf_s3, id) ==
            [NoScript EXCEPT !.kind = "comment",
                !.comment = "-- Contrato com URL do PDF '" \o url_pdf_s3
                            \o "' já existe no banco de dados (ID=" \o ToString(id)
                            \o "). Nenhuma ação realizada."]
    IN  /\ spc = "gexisting"
        /\ LET url_pdf_s3 == script_url(sfile)
               existing_contract == contrato_ids_by_url(swork, url_pdf_s3)
           IN  \/ /\ existing_contract # {}
                  /\ \E id \in existing_contract : script' = CommentExists(url_pdf_s3, id)
                  /\ scontrato' = scontrato
               \/ /\ existing_contract = {}
                  /\ scontrato' = [scontrato EXCEPT !.url_pdf_s3 = url_pdf_s3]
                  /\ script' = BuildScript(scontrato', run.valid_items)
        /\ sconn' = [status |-> "intrans"]
        /\ spc' = "gclose"
        /\ UNCHANGED <<json_data, sfile, sdb, swork, run, nfaults>>

GenExistingRaises(e) ==
    /\ spc = "gexisting"
    /\ e \in SRaisable(sconn)
    /\ nfaults' = SCounted(sconn)
    /\ sconn' = SAfterErr(sconn, e)
    /\ run' = [run EXCEPT !.raised = e]
    /\ spc' = "gclose"
    /\ UNCHANGED <<json_data, sfile, scontrato, script, sdb, swork>>

\* lines 616-618; then the text, if one was returned, is saved to a file
GenClose ==
    /\ spc = "gclose"
    /\ sconn' = [status |-> "closed"]
    /\ swork' = sdb
    /\ spc' = IF run.raised = NULL THEN "generated" ELSE "gen_failed"
    /\ UNCHANGED <<json_data, sfile, scontrato, script, sdb, run, nfaults>>

\* another writer stores a contract with the url of this document
OtherWriter ==
    /\ spc \in {"connect", "generated"}
    /\ ~run.other
    /\ LET orgao == [razao_social |-> "Outro", sigla |-> NULL, cnpj |-> "9"]
           empresa == [razao_social |-> "Outra", cnpj |-> "9"]
           t1 == [sdb EXCEPT !.orgao_contratante = Append(@, OrgaoRow(sdb, orgao)),
                             !.empresa_contratada = Append(@, EmpresaRow(sdb, empresa))]
           c == [IdleContrato EXCEPT !.numero_contrato = "999",
                                     !.url_pdf_s3 = script_url(sfile)]
       IN  sdb' = [t1 EXCEPT !.contratos =
                      Append(@, ContratoRow(t1, c, Len(t1.orgao_contratante),
                                            Len(t1.empresa_contratada)))]
    /\ swork' = sdb'
    /\ run' = [run EXCEPT !.other = TRUE]
    /\ UNCHANGED <<json_data, sfile, scontrato, script, sconn, spc, nfaults>>

\* execute_sql_script.py lines 24-34
ExecConnect ==
    /\ spc \in {"generated", "again"}
    /\ sconn' = OpenConn
    /\ swork' = sdb
    /\ run' = [run EXCEPT !.raised = NULL, !.path = "", !.i = 0,
                          !.success_count = 0, !.error_count = 0,
                          !.before = Business(sdb), !.applied = Business(sdb)]
    /\ spc' = "whole"
    /\ UNCHANGED <<json_data, sfile, scontrato, script, sdb, nfaults>>

\* connect raises: the handler of line 88 finds no connection
ExecConnectRaises ==
    /\ spc \in {"generated", "again"}
    /\ nfaults < MaxFaults
    /\ nfaults' = nfaults + 1
    /\ sconn' = NoConn
    /\ run' = [run EXCEPT !.raised = E_conn, !.success = FALSE, !.path = "",
                          !.executions = @ + 1, !.success_count = 0, !.error_count = 0,
                          !.before = Business(sdb), !.applied = Business(sdb)]
    /\ spc' = "executed"
    /\ UNCHANGED <<json_data, sfile, scontrato, script, sdb, swork>>

\* line 44: the whole text in one execute
ExecWhole ==
    /\ spc = "whole"
    /\ CommandOk(script, {1, 2, 3})
    /\ script.kind = "inserts"
    /\ swork' \in ExecStmts(swork, script, {1, 2, 3})
    /\ sconn' = [status |-> "intrans"]
    /\ run' = [run EXCEPT !.path = "whole", !.applied = Business(swork')]
    /\ spc' = "commit"
    /\ UNCHANGED <<json_data, sfile, scontrato, script, sdb, nfaults>>

\* line 44 raises: the server refuses the text (a comment alone is an empty
\* query, a statement is malformed) or the operation fails on its own
ExecWholeRaises(e) ==
    /\ spc = "whole"
    /\ \/ e \in SRaisable(sconn) /\ nfaults' = SCounted(sconn)
       \/ /\ ~(script.kind = "inserts" /\ CommandOk(script, {1, 2, 3}))
          /\ e = E_stmt
          /\ nfaults' = nfaults
    /\ sconn' = SAfterErr(sconn, e)
    /\ run' = [run EXCEPT !.path = "fallback"]
    /\ spc' = "fb_rollback"
    /\ UNCHANGED <<json_data, sfile, scontrato, script, sdb, swork>>

\* line 49: rollback, which raises on a broken connection, then line 52
FallbackRollback ==
    /\ spc = "fb_rollback"
    /\ IF sconn.status = "broken"
       THEN /\ run' = [run EXCEPT !.raised = E_conn]
            /\ spc' = "handler"
            /\ UNCHANGED <<swork, sconn>>
       ELSE /\ swork' = sdb
            /\ sconn' = OpenConn
            /\ run' = [run EXCEPT !.i = 1, !.applied = Business(sdb)]
            /\ spc' = "fb_cmd"
    /\ UNCHANGED <<json_data, sfile, scontrato, script, sdb, nfaults>>

\* lines 58-65: one command of the loop is executed
FallbackCommand ==
    /\ spc = "fb_cmd"
    /\ run.i <= Len(Commands(script))
    /\ sconn.status \in {"ready", "intrans"}
    /\ CommandOk(script, Commands(script)[run.i])
    /\ swork' \in ExecStmts(swork, script, Commands(script)[run.i])
    /\ sconn' = [status |-> "intrans"]
    /\ run' = [run EXCEPT !.i = @ + 1, !.success_count = @ + 1,
                          !.applied = Business(swork')]
    /\ UNCHANGED <<json_data, sfile, scontrato, script, sdb, spc, nfaults>>

\* lines 66-70: the command raises and the loop goes on
FallbackCommandRaises(e) ==
    /\ spc = "fb_cmd"
    /\ run.i <= Len(Commands(script))
    /\ \/ e \in SRaisable(sconn) /\ nfaults' = SCounted(sconn)
       \/ /\ sconn.status \in {"ready", "intrans"}
          /\ ~CommandOk(script, Commands(script)[run.i])
          /\ e = E_stmt
          /\ nfaults' = nfaults
    /\ sconn' = SAfterErr(sconn, e)
    /\ run' = [run EXCEPT !.i = @ + 1, !.error_count = @ + 1]
    /\ UNCHANGED <<json_data, sfile, scontrato, script, sdb, swork, spc>>

\* lines 73-77
FallbackEnd ==
    /\ spc = "fb_cmd"
    /\ run.i > Len(Commands(script))
    /\ IF run.success_count = 0
       THEN run' = [run EXCEPT !.raised = E_stmt] /\ spc' = "handler"
       ELSE run' = run /\ spc' = "commit"
    /\ UNCHANGED <<json_data, sfile, scontrato, script, sdb, swork, sconn, nfaults>>

\* line 80: a commit of an aborted transaction is answered with a rollback
\* and raises nothing
ExecCommit ==
    /\ spc = "commit"
    /\ sconn.status \in {"ready", "intrans", "aborted"}
    /\ sdb' = IF sconn.status = "aborted" THEN sdb ELSE swork
    /\ swork' = sdb'
    /\ sconn' = OpenConn
    /\ spc' = "close"
    /\ UNCHANGED <<json_data, sfile, scontrato, script, run, nfaults>>

\* commit raises: the transaction was rolled back, or the connection was
\* lost with the commit applied or not
ExecCommitRaises(e) ==
    /\ spc = "commit"
    /\ IF sconn.status = "broken"
       THEN /\ e = E_conn
            /\ UNCHANGED <<sdb, sconn, nfaults>>
       ELSE /\ nfaults < MaxFaults
            /\ nfaults' = nfaults + 1
            /\ \/ e = E_stmt /\ sdb' = sdb /\ sconn' = OpenConn
               \/ /\ e = E_conn
                  /\ sdb' \in {sdb} \cup (IF sconn.status = "aborted" THEN {} ELSE {swork})
                  /\ sconn' = [status |-> "broken"]
    /\ swork' = sdb'
    /\ run' = [run EXCEPT !.raised = e]
    /\ spc' = "handler"
    /\ UNCHANGED <<json_data, sfile, scontrato, script>>

\* lines 83-86
ExecClose ==
    /\ spc = "close"
    /\ sconn' = [status |-> "closed"]
    /\ run' = [run EXCEPT !.success = TRUE, !.executions = @ + 1,
                          !.after_first = IF run.executions = 0
                                          THEN Business(sdb) ELSE @]
    /\ spc' = "executed"
    /\ UNCHANGED <<json_data, sfile, scontrato, script, sdb, swork, nfaults>>

\* lines 88-100: rollback and close inside a try whose except passes; on a
\* broken connection rollback raises and close is not reached
ExecHandler ==
    /\ spc = "handler"
    /\ IF sconn.status = "broken"
       THEN UNCHANGED <<sconn, swork>>
       ELSE sconn' = [status |-> "closed"] /\ swork' = sdb
    /\ run' = [run EXCEPT !.success = FALSE, !.executions = @ + 1,
                          !.after_first = IF run.executions = 0
                                          THEN Business(sdb) ELSE @]
    /\ spc' = "executed"
    /\ UNCHANGED <<json_data, sfile, scontrato, script, sdb, nfaults>>

\* the saved script is executed once more
ExecAgain ==
    /\ spc = "executed"
    /\ run.executions < MaxExecutions
    /\ spc' = "again"
    /\ sconn' = NoConn
    /\ UNCHANGED <<json_data, sfile, scontrato, script, sdb, swork, run, nfaults>>

\* the document is done
EndRound ==
    /\ spc \in {"executed", "gen_failed"}
    /\ json_data' = IdleData
    /\ sfile' = ""
    /\ scontrato' = IdleContrato
    /\ script' = NoScript
    /\ sconn' = NoConn
    /\ run' = IdleRun(run.n + 1)
    /\ spc' = "idle"
    /\ UNCHANGED <<sdb, swork, nfaults>>

NextScript ==
    LET \* the variables of persist_contract that the script route leaves alone
        persistvars == <<db, work, conn, pc, contrato, loc, pre, filename, ncalls>>
    IN  \/ \E p \in ScriptPayloads, f \in { "doc.pdf", "doc", "DOC.PDF" } : Start(p, f) /\ UNCHANGED <<textvars, racevars>>
        \/ FilterItems /\ UNCHANGED <<textvars, scriptvars, racevars>>
        \/ AutocommitRaises /\ UNCHANGED <<textvars, scriptvars, racevars>>
        \/ ResolveOrgao /\ UNCHANGED <<textvars, scriptvars, racevars>>
        \/ ResolveEmpresa /\ UNCHANGED <<textvars, scriptvars, racevars>>
        \/ ResolveContrato /\ UNCHANGED <<textvars, scriptvars, racevars>>
        \/ InsertItem /\ UNCHANGED <<textvars, scriptvars, racevars>>
        \/ Commit /\ UNCHANGED <<textvars, scriptvars, racevars>>
        \/ Except /\ UNCHANGED <<textvars, scriptvars, racevars>>
        \/ Finally /\ UNCHANGED <<textvars, scriptvars, racevars>>
        \/ Return /\ UNCHANGED <<textvars, scriptvars, racevars>>
        \/ ParseJson /\ UNCHANGED <<textvars, dbvars, racevars>>
        \/ ParseJsonRaises /\ UNCHANGED <<textvars, dbvars, racevars>>
        \/ GenConnect /\ UNCHANGED <<textvars, persistvars, racevars>>
        \/ GenConnectRaises /\ UNCHANGED <<textvars, persistvars, racevars>>
        \/ GenFilter /\ UNCHANGED <<textvars, persistvars, racevars>>
        \/ \E e \in Errors : GenFilterRaises(e) /\ UNCHANGED <<textvars, persistvars, racevars>>
        \/ GenExisting /\ UNCHANGED <<textvars, persistvars, racevars>>
        \/ \E e \in Errors : GenExistingRaises(e) /\ UNCHANGED <<textvars, persistvars, racevars>>
        \/ GenClose /\ UNCHANGED <<textvars, persistvars, racevars>>
        \/ OtherWriter /\ UNCHANGED <<textvars, persistvars, racevars>>
        \/ ExecConnect /\ UNCHANGED <<textvars, persistvars, racevars>>
        \/ ExecConnectRaises /\ UNCHANGED <<textvars, persistvars, racevars>>
        \/ ExecWhole /\ UNCHANGED <<textvars, persistvars, racevars>>
        \/ \E e \in Errors : ExecWholeRaises(e) /\ UNCHANGED <<textvars, persistvars, racevars>>
        \/ FallbackRollback /\ UNCHANGED <<textvars, persistvars, racevars>>
        \/ FallbackCommand /\ UNCHANGED <<textvars, persistvars, racevars>>
        \/ \E e \in Errors : FallbackCommandRaises(e) /\ UNCHANGED <<textvars, persistvars, racevars>>
        \/ FallbackEnd /\ UNCHANGED <<textvars, persistvars, racevars>>
        \/ ExecCommit /\ UNCHANGED <<textvars, persistvars, racevars>>
        \/ \E e \in Errors : ExecCommitRaises(e) /\ UNCHANGED <<textvars, persistvars, racevars>>
        \/ ExecClose /\ UNCHANGED <<textvars, persistvars, racevars>>
        \/ ExecHandler /\ UNCHANGED <<textvars, persistvars, racevars>>
        \/ ExecAgain /\ UNCHANGED <<textvars, persistvars, racevars>>
        \/ EndRound /\ UNCHANGED <<textvars, persistvars, racevars>>

SpecScript == Init /\ [][NextScript]_vars

----------------------------------------------------------------------------
(* Two persist_contract calls on separate connections, interleaved.  Each
   connection is in autocommit mode when its call starts; PostgreSQL runs
   the transactions READ COMMITTED: a statement sees the committed rows and
   the rows of its own transaction *)

\* the tables as the transaction of call i sees them
View(i) ==
    [rdb EXCEPT !.orgao_contratante = @ \o rtx[i].own.orgao_contratante,
                !.empresa_contratada = @ \o rtx[i].own.empresa_contratada,
                !.contratos = @ \o rtx[i].own.contratos,
                !.itens = @ \o rtx[i].own.itens]

\* a unique index on cnpj that accepts every row
never_duplicate(rows, cnpj) == FALSE

\* the unique index on cnpj finds the value in rows; NULLs never collide
duplicate_key(rows, cnpj) == cnpj # NULL /\ \E r \in Rows(rows) : r.cnpj = cnpj

\* the caller parses the payload and calls persist_contract; lines 372-394
RaceCall(i, p) ==
    /\ rtx[i].pc = "idle"
    /\ rtx' = [rtx EXCEPT ![i] = [@ EXCEPT
                 !.pc = "orgao",
                 !.contrato = [Parse(p) EXCEPT !.itens = ValidItems(rdb, @)],
                 !.log_status = "Sucesso"]]
    /\ UNCHANGED <<unique, rdb, rseq>>

\* the SELECT of insert_orgao_contratante (line 171) or of
\* insert_empresa_contratada (line 188)
RaceLookup(i) ==
    LET t == rtx[i]
        ids == IF t.pc = "orgao"
               THEN get_orgao_contratante_by_cnpj(View(i), t.contrato.orgao_contratante.cnpj)
               ELSE get_empresa_contratada_by_cnpj(View(i), t.contrato.empresa_contratada.cnpj)
    IN  /\ t.pc \in {"orgao", "empresa"}
        /\ \/ /\ ids = {}
              /\ rtx' = [rtx EXCEPT ![i].pc = t.pc \o "_insert"]
           \/ /\ ids # {}
              /\ \E id \in ids :
                    rtx' = [rtx EXCEPT ![i] =
                              IF t.pc = "orgao"
                              THEN [@ EXCEPT !.orgao_id = id, !.pc = "empresa"]
                              ELSE [@ EXCEPT !.empresa_id = id, !.pc = "contrato"]]
        /\ UNCHANGED <<unique, rdb, rseq>>

\* the INSERT of insert_orgao_contratante (line 182) or of
\* insert_empresa_contratada (line 199).  With the unique index the
\* statement waits while another open transaction holds a row with the same
\* cnpj, and raises UniqueViolation when a committed row has it
RaceInsert(i) ==
    LET t == rtx[i]
        tab == IF t.pc = "orgao_insert" THEN "orgao_contratante" ELSE "empresa_contratada"
        party == t.contrato[tab]
        held == \E j \in (1..MaxWriters) \ {i} : duplicate_key(rtx[j].own[tab], party.cnpj)
        row == IF t.pc = "orgao_insert"
               THEN [OrgaoRow(rdb, party) EXCEPT !.id = rseq[tab] + 1]
               ELSE [EmpresaRow(rdb, party) EXCEPT !.id = rseq[tab] + 1]
    IN  /\ t.pc \in {"orgao_insert", "empresa_insert"}
        /\ unique => ~held
        /\ IF unique /\ duplicate_key(rdb[tab], party.cnpj)
           THEN /\ rtx' = [rtx EXCEPT ![i] = [@ EXCEPT !.pc = "except", !.violated = TRUE]]
                /\ rseq' = rseq
           ELSE /\ rseq' = [rseq EXCEPT ![tab] = @ + 1]
                /\ rtx' = [rtx EXCEPT ![i] =
                             IF t.pc = "orgao_insert"
                             THEN [@ EXCEPT !.own[tab] = Append(@, row),
                                            !.orgao_id = row.id, !.pc = "empresa"]
                             ELSE [@ EXCEPT !.own[tab] = Append(@, row),
                                            !.empresa_id = row.id, !.pc = "contrato"]]
        /\ UNCHANGED <<unique, rdb>>

\* insert_contrato and the insert_item loop (lines 401-404)
RaceContrato(i) ==
    LET t == rtx[i]
        ids == get_contrato_by_numero_urlpdf(View(i), t.contrato.numero_contrato,
                                             t.contrato.url_pdf_s3)
        row == [ContratoRow(rdb, t.contrato, t.orgao_id, t.empresa_id)
                   EXCEPT !.id = rseq.contratos + 1]
        Items(cid) == [k \in 1..Len(t.contrato.itens) |-> ItemRow(t.contrato.itens[k], cid)]
    IN  /\ t.pc = "contrato"
        /\ \/ /\ ids # {}
              /\ rseq' = rseq
              /\ \E id \in ids :
                    rtx' = [rtx EXCEPT ![i] = [@ EXCEPT !.contrato_id = id, !.pc = "commit",
                                                        !.own.itens = @ \o Items(id)]]
           \/ /\ ids = {}
              /\ rseq' = [rseq EXCEPT !.contratos = @ + 1]
              /\ rtx' = [rtx EXCEPT ![i] = [@ EXCEPT !.contrato_id = row.id, !.pc = "commit",
                                                     !.own.contratos = Append(@, row),
                                                     !.own.itens = @ \o Items(row.id)]]
        /\ UNCHANGED <<unique, rdb>>

\* line 406
RaceCommit(i) ==
    /\ rtx[i].pc = "commit"
    /\ rdb' = View(i)
    /\ rtx' = [rtx EXCEPT ![i] = [@ EXCEPT !.own = EmptyTables, !.pc = "finally"]]
    /\ UNCHANGED <<unique, rseq>>

\* lines 408-412
RaceExcept(i) ==
    /\ rtx[i].pc = "except"
    /\ rtx' = [rtx EXCEPT ![i] = [@ EXCEPT !.own = EmptyTables, !.log_status = "Falha",
                                           !.pc = "finally"]]
    /\ UNCHANGED <<unique, rdb, rseq>>

\* lines 413-424: the log row, in autocommit mode
RaceFinally(i) ==
    /\ rtx[i].pc = "finally"
    /\ rdb' = [rdb EXCEPT !.log_extrator = Append(@,
                  [numero_contrato |-> rtx[i].contrato.numero_contrato,
                   quantidade_itens |-> Len(rtx[i].contrato.itens),
                   status_execucao |-> rtx[i].log_status])]
    /\ rtx' = [rtx EXCEPT ![i].pc = "done"]
    /\ UNCHANGED <<unique, rseq>>

\* the unique index on cnpj is created on the empty tables
CreateUniqueIndex ==
    /\ ~unique
    /\ \A i \in 1..MaxWriters : rtx[i].pc = "idle"
    /\ unique' = TRUE
    /\ UNCHANGED <<rdb, rseq, rtx>>

NextRace ==
    LET others == <<dbvars, textvars, scriptvars>>
        \* payloads with the same organization and one of two companies
        RacePayloads ==
            { SPayload("123", ABSENT, ABSENT, Org("Ra", ABSENT, "1"), Org("Ea", ABSENT, c),
                       ItemsList(<< SItem("x", "A1", "2", ABSENT) >>)) : c \in {"2", "3"} }
    IN  \/ \E i \in 1..MaxWriters, p \in RacePayloads : RaceCall(i, p) /\ UNCHANGED others
        \/ \E i \in 1..MaxWriters : RaceLookup(i) /\ UNCHANGED others
        \/ \E i \in 1..MaxWriters : RaceInsert(i) /\ UNCHANGED others
        \/ \E i \in 1..MaxWriters : RaceContrato(i) /\ UNCHANGED others
        \/ \E i \in 1..MaxWriters : RaceCommit(i) /\ UNCHANGED others
        \/ \E i \in 1..MaxWriters : RaceExcept(i) /\ UNCHANGED others
        \/ \E i \in 1..MaxWriters : RaceFinally(i) /\ UNCHANGED others
        \/ CreateUniqueIndex /\ UNCHANGED others

SpecRace == Init /\ [][NextRace]_vars

----------------------------------------------------------------------------
(* Properties of ContractParser.parse and of the script route *)

\* C13: ContractParser.parse raises for no JSON object, whatever top-level
\* and item fields are absent, null or present (orgao_contratante,
\* empresa_contratada and itens included): it returns a Contrato.
C13_ParseNeverRaises ==
    spc \notin {"idle", "parse"} => run.raised # "TypeError"

\* what the payload holds under a key of a sub-object, if anything
Given(sub, key) ==
    IF sub.present /\ ~sub.null /\ sub.obj[key] # ABSENT THEN sub.obj[key] ELSE ""

\* C14: parse maps the payload field by field: a missing orgao_contratante
\* or empresa_contratada gives empty-string razao_social and cnpj, a missing
\* itens gives the empty item list, the items keep the payload order one for
\* one, and an item without tipo gets tipo 'Material'.
C14_ParseFieldByField ==
    spc = "connect" =>
        /\ scontrato.numero_contrato = json_data.numero_contrato
        /\ scontrato.orgao_contratante.razao_social = Given(json_data.orgao_contratante, "razao_social")
        /\ scontrato.orgao_contratante.cnpj = Given(json_data.orgao_contratante, "cnpj")
        /\ scontrato.empresa_contratada.razao_social = Given(json_data.empresa_contratada, "razao_social")
        /\ scontrato.empresa_contratada.cnpj = Given(json_data.empresa_contratada, "cnpj")
        /\ ~json_data.itens.present => scontrato.itens = << >>
        /\ json_data.itens.present =>
              /\ Len(scontrato.itens) = Len(json_data.itens.list)
              /\ \A i \in 1..Len(scontrato.itens) :
                    /\ scontrato.itens[i].descricao = json_data.itens.list[i].descricao
                    /\ scontrato.itens[i].catmat_catser = json_data.itens.list[i].catmat_catser
                    /\ scontrato.itens[i].quantidade = json_data.itens.list[i].quantidade
                    /\ scontrato.itens[i].tipo =
                          IF json_data.itens.list[i].tipo = ABSENT THEN "Material"
                          ELSE json_data.itens.list[i].tipo

C14_Witness ==
    /\ spc = "connect"
    /\ json_data = SP_mixed
    /\ scontrato.orgao_contratante.cnpj = ""
    /\ Len(scontrato.itens) = 2
    /\ scontrato.itens[1].tipo = "Material"
    /\ scontrato.itens[2].tipo = "Servico"

Codes == {NULL, "", "A1", "S1", "ZZ", "a1", "s1"}

\* C15: is_valid_catmat_catser is False for a null or empty code and, for any
\* other code, True exactly when the code is a key of catmat or of catser by
\* exact match; the filter that calls it keeps exactly those items and
\* changes no table.
C15_ValidIffExactKey ==
    /\ \A code \in Codes :
          is_valid_catmat_catser(sdb, code) <=>
              (code # NULL /\ code # "" /\ (code \in sdb.catmat \/ code \in sdb.catser))
    /\ (spc = "gexisting" \/ (spc = "gclose" /\ run.raised = NULL)) =>
          /\ run.valid_items =
                SelectSeq(scontrato.itens,
                          LAMBDA it : it.catmat_catser \in sdb.catmat \cup sdb.catser)
          /\ swork = sdb
          /\ sdb.catmat = EmptyTables.catmat
          /\ sdb.catser = EmptyTables.catser

C15_Witness ==
    /\ spc = "gexisting"
    /\ json_data = SP_mixed
    /\ Len(scontrato.itens) = 2
    /\ Len(run.valid_items) = 1
    /\ run.valid_items[1].catmat_catser = "A1"

\* the text is one line that starts a comment
SingleComment(text) ==
    /\ startswith(Chars(text), <<"-", "-">>)
    /\ \A i \in 1..Len(text) : Chars(text)[i] # "\n"

\* C16: the text generate_sql_script returns holds INSERT statements exactly
\* when an item of the contract has a valid code and no contratos row has
\* the computed url at generation time; otherwise it is a single comment.
C16_InsertsIffValidAndNew ==
    (spc = "gclose" /\ run.raised = NULL) =>
        LET has_valid == \E i \in 1..Len(scontrato.itens) :
                            scontrato.itens[i].catmat_catser \in sdb.catmat \cup sdb.catser
            known == \E r \in Rows(sdb.contratos) : r.url_pdf_s3 = script_url(sfile)
        IN  /\ script.kind = "inserts" <=> (has_valid /\ ~known)
            /\ script.kind # "inserts" =>
                  script.kind = "comment" /\ SingleComment(script.comment)

C16_Witness ==
    /\ spc = "gclose"
    /\ run.raised = NULL
    /\ run.other
    /\ run.valid_items # << >>
    /\ script.kind = "comment"
    /\ sfile = "doc"

\* C17: executing the generated script leaves orgao_contratante,
\* empresa_contratada, contratos and itens as persist_contract leaves them
\* for the same contract from the same tables.
C17_ScriptSameAsPersist ==
    ( /\ spc = "executed"
      /\ run.same
      /\ run.executions = 1
      /\ ~run.other
      /\ nfaults = 0 ) => Business(sdb) = Business(db)

\* C18: executing a generated script a second time leaves the organization,
\* company, contract and item rows as the first execution left them.
C18_ScriptIdempotent ==
    ( /\ spc = "executed"
      /\ run.executions = 2
      /\ run.success
      /\ run.path = "whole"
      /\ nfaults = 0 ) => Business(sdb) = run.after_first

\* the value with its single quotes taken out
WithoutQuotes(v) == Str(SelectSeq(Chars(v), LAMBDA ch : ch # "'"))

\* the text is exactly one string constant, which stands for value v
Stands(text, v) == ReadLiteral(text).ok /\ ReadLiteral(text).value = v

\* C19: in the script every value written between quotes is one whole string
\* constant: the text values (names, cnpj, contract fields, item description,
\* specification, unit, type, places) stand for the value itself, their
\* quotes doubled, and quantidade, valor_unitario, valor_total and
\* catmat_catser for the value without its quotes.
C19_NoValueEndsItsLiteral ==
    (spc = "gclose" /\ script.kind = "inserts") =>
        /\ Stands(script.orgao.razao_social, or_empty(scontrato.orgao_contratante.razao_social))
        /\ Stands(script.orgao.sigla, or_empty(scontrato.orgao_contratante.sigla))
        /\ Stands(script.orgao.cnpj, fstr(scontrato.orgao_contratante.cnpj))
        /\ Stands(script.empresa.razao_social, or_empty(scontrato.empresa_contratada.razao_social))
        /\ Stands(script.empresa.cnpj, fstr(scontrato.empresa_contratada.cnpj))
        /\ \A f \in ContratoTextFields : Stands(script.contrato[f], or_empty(scontrato[f]))
        /\ \A i \in 1..Len(script.itens) :
              /\ \A f \in {"descricao", "especificacao", "unidade_medida", "tipo",
                           "locais_execucao_entrega"} :
                    Stands(script.itens[i][f], or_empty(run.valid_items[i][f]))
              /\ \A f \in {"quantidade", "valor_unitario", "valor_total", "catmat_catser"} :
                    Stands(script.itens[i][f], WithoutQuotes(or_empty(run.valid_items[i][f])))

\* C20: when generate_sql_script or execute_sql_script has returned, the
\* connection it opened, if it opened one, has been closed.
C20_ConnectionsClosed ==
    spc \in {"generated", "gen_failed", "executed"} => sconn.status \in {"none", "closed"}

----------------------------------------------------------------------------
(* persist_contract: what the caller sees, the order of the steps, a
   contract with no surviving item *)

\* C21: a call whose insert sequence failed and was rolled back ends without
\* an exception reaching the caller, and gives the caller something other
\* than what a committed call gives.
C21_FailureIsReported ==
    (pc = "done" /\ loc.exc # NULL) =>
        /\ loc.escaped = NULL
        /\ loc.returned # persist_contract_result("Sucesso")

\* C24: inside one call the company is resolved after the organization and
\* the contract after the company; a new contract row carries the two ids
\* resolved before it; an item row is inserted only with the contract id
\* known and carries it; rows become committed only at the commit, after
\* every surviving item was inserted; the except clause is entered from the
\* steps of the try only, and what it rolls back was never committed.
C24_StepsInOrder ==
    [][/\ pc' = "empresa" => (pc = "orgao" /\ loc'.orgao_id # NoId)
       /\ pc' = "contrato" => (pc = "empresa" /\ loc'.empresa_id # NoId)
       /\ Len(work'.contratos) > Len(work.contratos) =>
             /\ pc = "contrato"
             /\ loc.orgao_id # NoId /\ loc.empresa_id # NoId
             /\ work'.contratos[Len(work'.contratos)].orgao_contratante_id = loc.orgao_id
             /\ work'.contratos[Len(work'.contratos)].empresa_contratada_id = loc.empresa_id
       /\ Len(work'.itens) > Len(work.itens) =>
             /\ pc = "itens"
             /\ loc.contrato_id # NoId
             /\ work'.itens[Len(work'.itens)].contrato_id = loc.contrato_id
       /\ Business(db') # Business(db) =>
             /\ pc = "commit"
             /\ Len(work.itens) = Len(db.itens) + Len(contrato.itens)
       /\ pc' = "except" => pc \in InsertSteps \cup {"commit"}
       /\ (pc = "except" /\ work' # work) => Business(db) = Business(pre)
      ]_vars

\* a call that inserted a contract and its two items is committed, after an
\* earlier call was rolled back
C24_Witness ==
    /\ pc = "finally"
    /\ loc.exc = NULL
    /\ ~loc.existing
    /\ Len(contrato.itens) = 2
    /\ Business(db) = Business(work)
    /\ db.contratos[Len(db.contratos)].orgao_contratante_id = loc.orgao_id
    /\ \E k \in 1..Len(db.log_extrator) : db.log_extrator[k].status_execucao = "Falha"

\* C25: a call that ends with no surviving item, on a database that serves
\* every statement, has stored the organization, the company and the
\* contract, no item, and a log row with quantidade_itens = 0 and status
\* Sucesso, whether the payload had no item or all its items were rejected.
C25_NoItemStillPersists ==
    (pc = "done" /\ nfaults = 0 /\ loc.qtd_itens = 0) =>
        /\ loc.logged
        /\ LastLog.quantidade_itens = 0
        /\ LastLog.status_execucao = "Sucesso"
        /\ db.itens = pre.itens
        /\ \E r \in Rows(db.orgao_contratante) : r.id = loc.orgao_id
        /\ \E r \in Rows(db.empresa_contratada) : r.id = loc.empresa_id
        /\ \E r \in Rows(db.contratos) : r.id = loc.contrato_id

----------------------------------------------------------------------------
(* C22: with the unique index on cnpj in place, a call that hits a unique
   violation when inserting an organization or a company treats it as
   "already exists", looks the row up again, and ends with status Sucesso:
   no finished call that met the violation has status Falha *)
C22_ViolationIsRetried ==
    \A i \in 1..MaxWriters :
        (unique /\ rtx[i].pc = "done" /\ rtx[i].violated) =>
            /\ rtx[i].log_status = "Sucesso"
            /\ rtx[i].orgao_id # NoId
            /\ rtx[i].empresa_id # NoId

(* C23: the lookup and the insert are separate statements, so without the
   unique index two interleaved calls can leave two rows with one cnpj;
   with the index in place no committed table ever holds two rows with the
   same non-null cnpj *)
C23_IndexKeepsCnpjUnique ==
    \A tab \in {"orgao_contratante", "empresa_contratada"} :
        \A a, b \in 1..Len(rdb[tab]) :
            (a # b /\ rdb[tab][a].cnpj # NULL /\ rdb[tab][a].cnpj = rdb[tab][b].cnpj)
                => ~unique

\* with the index: the calls for one cnpj have all finished, one of them after
\* a unique violation, and the organization has one row
C23_IndexRaceReached ==
    /\ unique
    /\ \A i \in 1..MaxWriters : rtx[i].pc = "done"
    /\ Len(rdb.orgao_contratante) = 1
    /\ \E i \in 1..MaxWriters : rtx[i].violated

\* without the index: two committed organization rows with one cnpj
C23_TwoRowsWithoutIndex ==
    /\ ~unique
    /\ \A i \in 1..MaxWriters : rtx[i].pc = "done" /\ rtx[i].log_status = "Sucesso"
    /\ \E a, b \in 1..Len(rdb.orgao_contratante) :
          /\ a # b
          /\ rdb.orgao_contratante[a].cnpj = rdb.orgao_contratante[b].cnpj
          /\ rdb.orgao_contratante[a].cnpj # NULL

----------------------------------------------------------------------------
\* the strategies of analyze_with_gemini on cleaned text c, stated without
\* the function: the span from the first { to the last }, the suffixes that
\* start at a { and parse, the whole text
SpanOf(c) ==
    LET first == { a \in 1..Len(c) : c[a] = "{" /\ \A k \in 1..(a - 1) : c[k] # "{" }
        last == { b \in 1..Len(c) : c[b] = "}" /\ \A k \in (b + 1)..Len(c) : c[k] # "}" }
    IN  { ab \in first \X last : ab[1] < ab[2] }
SpanParses(c) == \E ab \in SpanOf(c) : json_loads(SubSeq(c, ab[1], ab[2])).ok
SuffixParses(c, i) == At(c, i) = "{" /\ json_loads(From(c, i)).ok

(* C26: analyze_with_gemini applies its strategies in a fixed order: the
   greedy span from the first { to the last }, then the suffix at each {
   from left to right, then the whole cleaned text.  A strategy is tried
   only if every earlier one failed, the result is that of the first one
   that gives an object, and for text that parses directly as an object the
   result is the direct parse (with anexo_contrato overwritten, as after
   every successful parse) *)
C26_StrategiesInOrder ==
    (tpc \in {"analyzed", "repaired", "processed"} /\ json_result.cleaned # << >>) =>
        LET c == json_result.cleaned
            name == basename(pdf_path)
            direct == json_loads(c)
        IN  /\ SpanParses(c) =>
                  /\ json_result.via = "span"
                  /\ \A ab \in SpanOf(c) :
                        json_result.val = fix_anexo(json_loads(SubSeq(c, ab[1], ab[2])).val, name)
            /\ json_result.via = "suffix" =>
                  /\ ~SpanParses(c)
                  /\ \E i \in 1..Len(c) :
                        /\ SuffixParses(c, i)
                        /\ \A k \in 1..(i - 1) : ~SuffixParses(c, k)
                        /\ json_result.val = fix_anexo(json_loads(From(c, i)).val, name)
            /\ (~SpanParses(c) /\ \E i \in 1..Len(c) : SuffixParses(c, i)) =>
                  json_result.via = "suffix"
            /\ json_result.via \in {"full", "error", "fallback"} =>
                  /\ ~SpanParses(c)
                  /\ \A i \in 1..Len(c) : ~SuffixParses(c, i)
                  /\ json_result.via = "fallback" <=> ~direct.ok
            /\ (direct.ok /\ IsObject(direct.val)) =>
                  /\ json_result.kind = "dict"
                  /\ json_result.val = fix_anexo(direct.val, name)

\* the span fails and a later { starts text that parses: the second strategy
\* gives the result, and it is not the first { that is used
C26_Witness ==
    /\ tpc = "analyzed"
    /\ json_result.via = "suffix"
    /\ json_result.cleaned[1] = "{"
    /\ ~SuffixParses(json_result.cleaned, 1)
    /\ json_result.kind = "dict"

(* C27: a result is handled as a parse failure (the branch of process_pdf
   for status_extracao = Falha, which repairs) only when every parse
   strategy of analyze_with_gemini failed: a response that was parsed is
   never handled as Falha, whatever status the model wrote in it, and a
   result with status Parcial is never handled as Falha *)
C27_FalhaOnlyAfterAllFailed ==
    tpc = "processed" =>
        /\ handled.branch = "Falha" => json_result.via = "fallback"
        /\ HasStr(json_result.val, K_status_extracao, V_Parcial) =>
              /\ handled.branch = "else"
              /\ HasStr(current_json_result.val, K_status_extracao, V_Parcial)

(* C29: when the analysis result is Falha and try_repair_truncated_json
   returns an object, the result process_pdf keeps for save_json and
   generate_sql when it ends is the repaired object, not the Falha
   fallback *)
C29_RepairedIsKept ==
    ( /\ tpc = "processed"
      /\ handled.branch = "Falha"
      /\ handled.repaired_json.kind = "dict" ) =>
        current_json_result = handled.repaired_json

----------------------------------------------------------------------------
(* C28: when execute_sql_script returns success = True, the effect of every
   command it executed without error is committed, also on the
   command-by-command path, where a later failing command must not lose the
   earlier ones; it returns success = False when the connection fails or
   no command succeeded, and then nothing of the call is committed *)
C28_SuccessMeansCommitted ==
    spc = "executed" =>
        /\ run.success => Business(sdb) = run.applied
        /\ (run.path = "fallback" /\ run.success_count = 0) => ~run.success
        /\ ~run.success =>
              /\ nfaults > 0 \/ (run.path = "fallback" /\ run.success_count = 0)
              /\ run.raised # E_conn => Business(sdb) = run.before

\* every item row of t references a contract row of t, and every contract
\* row an organization row and a company row of t
Consistent(t) ==
    /\ \A it \in Rows(t.itens) : \E c \in Rows(t.contratos) : c.id = it.contrato_id
    /\ \A c \in Rows(t.contratos) :
          /\ \E o \in Rows(t.orgao_contratante) : o.id = c.orgao_contratante_id
          /\ \E e \in Rows(t.empresa_contratada) : e.id = c.empresa_contratada_id

(* C30: in every reachable state of the database, after persist_contract
   calls and executions of generated scripts (whole or command by command,
   with failures at any point), every item row references an existing
   contract row and every contract row references an existing organization
   row and an existing company row, never a null id *)
C30_ReferencesExist ==
    Consistent(db) /\ Consistent(sdb)

\* a script was executed command by command after the whole text failed, and
\* the same contract went through persist_contract: both databases hold the
\* contract with its item
C30_Witness ==
    /\ spc = "executed"
    /\ run.path = "fallback"
    /\ run.success
    /\ nfaults > 0
    /\ pc = "idle"
    /\ \E c \in Rows(sdb.contratos) : \E it \in Rows(sdb.itens) : it.contrato_id = c.id
    /\ \E c \in Rows(db.contratos) : \E it \in Rows(db.itens) : it.contrato_id = c.id

====
